---- MODULE Spec2Model ----
(***************************************************************************)
(* A model of the ialla-api relay: the Vercel handlers under api/, the     *)
(* authentication middleware, the cache, the logging service, the error    *)
(* taxonomy and the three provider services.                               *)
(*                                                                         *)
(* One request is a small process.  Its steps are the points where the     *)
(* handler awaits an external collaborator (identity provider, profile     *)
(* store, provider API); everything the code does between two awaits is    *)
(* one atomic action, because Node runs it without interleaving.           *)
(***************************************************************************)
EXTENDS Integers, Sequences, FiniteSets, TLC

----------------------------------------------------------------------------
(* Bounds of the model *)

MaxReq == 2        \* requests in flight at the same time
MaxTicks == 3      \* how many times the clock advances

Req == 1 .. MaxReq

----------------------------------------------------------------------------
(* JavaScript values *)

Undefined == "<undefined>"

\* if (x): undefined and the empty string are falsy
Truthy(s) == s \notin {Undefined, ""}

----------------------------------------------------------------------------
(* src/utils/cache.ts: CacheService (unnamed/part_004) *)

defaultTTL == 3600

serviceTTLs ==
  [openai |-> 7200, elevenlabs |-> 3600, user_profiles |-> 1800, email_templates |-> 86400]

\* A 32-bit integer is kept as its two 16-bit halves (the two's complement
\* bit pattern), because TLC's integers are themselves 32 bits wide.
Half == 65536

Int32(hi, lo) == [hi |-> hi, lo |-> lo]

\* hash << 5
Shl5(a) == Int32((a.hi * 32 + (a.lo * 32) \div Half) % Half, (a.lo * 32) % Half)

\* (a - b) & 0xffffffff
Sub32(a, b) ==
  LET l == a.lo - b.lo
      borrow == IF l < 0 THEN 1 ELSE 0
  IN  Int32((a.hi - b.hi - borrow + 2 * Half) % Half, (l + Half) % Half)

\* (a + char) & 0xffffffff, char a UTF-16 code unit
AddChar(a, char) == Int32((a.hi + (a.lo + char) \div Half) % Half, (a.lo + char) % Half)

\* one round of the loop: hash = ((hash << 5) - hash) + char; hash = hash & hash
HashStep(hash, char) == AddChar(Sub32(Shl5(hash), hash), char)

\* the loop: for (i = 0; i < str.length; i++), its rounds for the indices
\* i .. j in order, entered with the value hash; the rounds of the first half
\* of the range are run, their value is bound, and the second half runs on it
RECURSIVE HashLoop(_, _, _, _)
HashLoop(str, i, j, hash) ==
  IF i > j THEN hash
  ELSE IF i = j THEN HashStep(hash, str[i])
  ELSE CHOOSE h \in
         { HashLoop(str, (i + j) \div 2 + 1, j, half) :
             half \in {HashLoop(str, i, (i + j) \div 2, hash)} } : TRUE

\* Math.abs(hash): the magnitude of the signed value, as an unsigned pattern
\* (the magnitude of -2^31 is 2^31)
Abs32(a) == IF a.hi >= 32768 THEN Sub32(Int32(0, 0), a) ELSE a

\* Number.prototype.toString(36): the digits, most significant first
RECURSIVE ToString36(_)
ToString36(a) ==
  LET rest == (a.hi % 36) * Half + a.lo
  IN  IF a.hi = 0 /\ a.lo < 36 THEN <<a.lo>>
      ELSE CHOOSE digits \in
             { Append(ToString36(quotient), rest % 36) :
                 quotient \in {Int32(a.hi \div 36, rest \div 36)} } : TRUE

\* strings are sequences of UTF-16 code units
hashString(str) ==
  IF Len(str) = 0 THEN ToString36(Int32(0, 0))
  ELSE CHOOSE digits \in
         { ToString36(magnitude) :
             magnitude \in {Abs32(hash) : hash \in {HashLoop(str, 1, Len(str), Int32(0, 0))}} } : TRUE

\* JSON.stringify({messages: [{role: "user", content}], userProfile: {}}):
\* studyTopic and vocabularyContext are undefined and JSON.stringify drops them
OpenAIJsonHead ==
  <<123, 34, 109, 101, 115, 115, 97, 103, 101, 115, 34, 58, 91, 123, 34, 114,
    111, 108, 101, 34, 58, 34, 117, 115, 101, 114, 34, 44, 34, 99, 111, 110,
    116, 101, 110, 116, 34, 58, 34>>

OpenAIJsonTail ==
  <<34, 125, 93, 44, 34, 117, 115, 101, 114, 80, 114, 111, 102, 105, 108, 101,
    34, 58, 123, 125, 125>>

\* JSON.stringify({text, voiceId: "v1", settings: {}})
VoiceJsonHead == <<123, 34, 116, 101, 120, 116, 34, 58, 34>>

VoiceJsonTail ==
  <<34, 44, 34, 118, 111, 105, 99, 101, 73, 100, 34, 58, 34, 118, 49, 34, 44,
    34, 115, 101, 116, 116, 105, 110, 103, 115, 34, 58, 123, 125, 125>>

generateOpenAIKey(content) ==
  [ns |-> "openai", digest |-> hashString(OpenAIJsonHead \o content \o OpenAIJsonTail)]

generateElevenLabsVoiceKey(text) ==
  [ns |-> "elevenlabs:voice", digest |-> hashString(VoiceJsonHead \o text \o VoiceJsonTail)]

\* the value a service returns or caches
NoValue == [kind |-> "undefined", content |-> <<>>, by |-> 0]

\* TTLOf with the default for every service
TTLOfDefaultOnly(service) == defaultTTL

\* set(key, data, service): ttl from the table, default when no service is given
TTLOf(service) ==
  IF service \in DOMAIN serviceTTLs THEN serviceTTLs[service] ELSE defaultTTL

\* CacheSet that drops the entry when the key is already present
CacheSetEvictsExisting(c, key, data, service, time) ==
  IF key \in DOMAIN c THEN [k \in DOMAIN c \ {key} |-> c[k]]
  ELSE [k \in DOMAIN c \cup {key} |->
          IF k = key THEN [v |-> data, t |-> time + TTLOf(service)] ELSE c[k]]

\* node-cache keeps the expiry instant with the value
CacheSet(c, key, data, service, time) ==
  [k \in DOMAIN c \cup {key} |->
     IF k = key THEN [v |-> data, t |-> time + TTLOf(service)] ELSE c[k]]

\* CacheGet with the entry already gone at its expiry instant
CacheGetExpiresEarly(c, key, time) ==
  IF key \in DOMAIN c /\ c[key].t > time THEN c[key].v ELSE NoValue

\* get(key): the value while the expiry instant has not passed, else undefined
CacheGet(c, key, time) ==
  IF key \in DOMAIN c /\ ~(c[key].t < time) THEN c[key].v ELSE NoValue

\* a get of an expired key removes it
CacheAfterGet(c, key, time) ==
  IF key \in DOMAIN c /\ c[key].t < time
  THEN [k \in DOMAIN c \ {key} |-> c[k]]
  ELSE c

----------------------------------------------------------------------------
(* src/utils/errors.ts *)

\* an Error: its class, its message (the fragments it is built from) and,
\* for ExternalAPIError, the service it names
Err(cls, message) == [cls |-> cls, message |-> message, service |-> ""]

\* a provider failure thrown as a plain Error
ExternalAPIErrorAsPlainError(message, service) ==
  [cls |-> "Error", message |-> message, service |-> service]

ExternalAPIError(message, service) ==
  [cls |-> "ExternalAPIError", message |-> message, service |-> service]

NoError == Err("none", <<>>)

\* the statusCode field each error class declares (500 for a plain Error)
ClassStatusCode(cls) ==
  CASE cls = "ValidationError" -> 400
    [] cls = "AuthenticationError" -> 401
    [] cls = "AuthorizationError" -> 403
    [] cls = "NotFoundError" -> 404
    [] cls = "ExternalAPIError" -> 502
    [] cls = "RateLimitError" -> 429
    [] OTHER -> 500

\* the code field each error class declares
ClassCode(cls) ==
  CASE cls = "ValidationError" -> "VALIDATION_ERROR"
    [] cls = "AuthenticationError" -> "AUTHENTICATION_ERROR"
    [] cls = "AuthorizationError" -> "AUTHORIZATION_ERROR"
    [] cls = "NotFoundError" -> "NOT_FOUND"
    [] cls = "ExternalAPIError" -> "EXTERNAL_API_ERROR"
    [] cls = "RateLimitError" -> "RATE_LIMIT_EXCEEDED"
    [] OTHER -> "INTERNAL_SERVER_ERROR"

\* getStatusCode with the tests for NotFoundError and RateLimitError left out
getStatusCodeShortChain(error) ==
  IF error.cls = "ValidationError" THEN 400
  ELSE IF error.cls = "AuthenticationError" THEN 401
  ELSE IF error.cls = "AuthorizationError" THEN 403
  ELSE IF error.cls = "ExternalAPIError" THEN 502
  ELSE 500

\* ErrorHandler.getStatusCode: the instanceof chain
getStatusCode(error) ==
  IF error.cls = "ValidationError" THEN 400
  ELSE IF error.cls = "AuthenticationError" THEN 401
  ELSE IF error.cls = "AuthorizationError" THEN 403
  ELSE IF error.cls = "NotFoundError" THEN 404
  ELSE IF error.cls = "RateLimitError" THEN 429
  ELSE IF error.cls = "ExternalAPIError" THEN 502
  ELSE 500

\* ErrorHandler.createErrorResponse: {error, message, code, timestamp}
createErrorResponse(error, nodeEnv, time) ==
  IF error.cls = "ValidationError" THEN
    [error |-> "Validation Error", message |-> error.message,
     code |-> ClassCode(error.cls), timestamp |-> time]
  ELSE IF error.cls = "AuthenticationError" THEN
    [error |-> "Authentication Error", message |-> error.message,
     code |-> ClassCode(error.cls), timestamp |-> time]
  ELSE IF error.cls = "AuthorizationError" THEN
    [error |-> "Authorization Error", message |-> error.message,
     code |-> ClassCode(error.cls), timestamp |-> time]
  ELSE IF error.cls = "NotFoundError" THEN
    [error |-> "Not Found", message |-> error.message,
     code |-> ClassCode(error.cls), timestamp |-> time]
  ELSE IF error.cls = "ExternalAPIError" THEN
    [error |-> "External API Error", message |-> <<error.service>> \o error.message,
     code |-> ClassCode(error.cls), timestamp |-> time]
  ELSE IF error.cls = "RateLimitError" THEN
    [error |-> "Rate Limit Exceeded", message |-> error.message,
     code |-> ClassCode(error.cls), timestamp |-> time]
  ELSE
    [error |-> "Internal Server Error",
     message |-> IF nodeEnv = "production"
                 THEN <<"An unexpected error occurred">> ELSE error.message,
     code |-> "INTERNAL_SERVER_ERROR", timestamp |-> time]

----------------------------------------------------------------------------
(* src/middleware/auth.ts: AuthMiddleware *)

\* the Authorization header: absent, empty, or a scheme and a credential
NoHeader == [scheme |-> Undefined, token |-> ""]
EmptyHeader == [scheme |-> "", token |-> ""]
Bearer(token) == [scheme |-> "Bearer", token |-> token]
BasicHeader == [scheme |-> "Basic", token |-> "x"]

\* the tokens the identity provider knows, and the user each belongs to
TokenUser == [t_u1 |-> "u1", t_u2 |-> "u2", t_admin |-> "admin"]

\* what supabase.auth.getUser(token) can answer: the user of a token it knows,
\* an error or no user for one it does not, and it can throw for any
GetUserOutcomes(token) ==
  IF token \in DOMAIN TokenUser THEN {"user", "throws"} ELSE {"error", "no_user", "throws"}

NoAuth == [userId |-> Undefined, authMethod |-> Undefined]

AuthOk(ctx, via) == [ok |-> TRUE, ctx |-> ctx, error |-> NoError, via |-> via]
AuthFail(message, via) ==
  [ok |-> FALSE, ctx |-> NoAuth, error |-> Err("AuthenticationError", <<message>>), via |-> via]

\* authenticateJWT accepting whatever the identity provider answers
authenticateJWTUnchecked(authHeader, outcome) ==
  IF ~Truthy(authHeader.scheme) \/ authHeader.scheme # "Bearer"
  THEN AuthFail("Invalid authorization header", "jwt")
  ELSE AuthOk([userId |-> authHeader.token, authMethod |-> "jwt"], "jwt")

authenticateJWT(authHeader, outcome) ==
  IF ~Truthy(authHeader.scheme) \/ authHeader.scheme # "Bearer"
  THEN AuthFail("Invalid authorization header", "jwt")
  ELSE IF outcome = "user"
  THEN AuthOk([userId |-> TokenUser[authHeader.token], authMethod |-> "jwt"], "jwt")
  ELSE IF outcome \in {"error", "no_user"}
  THEN AuthFail("Invalid or expired token", "jwt")
  ELSE AuthFail("Token validation failed", "jwt")

\* authenticateAPIKey without the comparison with the configured secret
authenticateAPIKeyAnyKey(apiKey, validAPIKey) ==
  IF ~Truthy(validAPIKey)
  THEN AuthFail("API key authentication not configured", "api_key")
  ELSE AuthOk([userId |-> "system", authMethod |-> "api_key"], "api_key")

authenticateAPIKey(apiKey, validAPIKey) ==
  IF ~Truthy(validAPIKey)
  THEN AuthFail("API key authentication not configured", "api_key")
  ELSE IF apiKey # validAPIKey
  THEN AuthFail("Invalid API key", "api_key")
  ELSE AuthOk([userId |-> "system", authMethod |-> "api_key"], "api_key")

\* authenticate trying the API key before the Authorization header
authenticateKeyFirst(authHeader, apiKey, validAPIKey, outcome) ==
  IF Truthy(apiKey) THEN authenticateAPIKey(apiKey, validAPIKey)
  ELSE IF Truthy(authHeader.scheme) THEN authenticateJWT(authHeader, outcome)
  ELSE AuthFail("No authentication provided", "none")

\* authenticate(req): JWT when the Authorization header is truthy, else the
\* API key when x-api-key is truthy, else no authentication provided
authenticate(authHeader, apiKey, validAPIKey, outcome) ==
  IF Truthy(authHeader.scheme) THEN authenticateJWT(authHeader, outcome)
  ELSE IF Truthy(apiKey) THEN authenticateAPIKey(apiKey, validAPIKey)
  ELSE AuthFail("No authentication provided", "none")

\* whether authenticate reaches supabase.auth.getUser for this header
CallsGetUser(authHeader) == Truthy(authHeader.scheme) /\ authHeader.scheme = "Bearer"

----------------------------------------------------------------------------
(* Request schemas (zod) of the handlers.  safeParse yields one issue per     *)
(* violated field; an issue has the path of the field and zod's message,     *)
(* which describes the violation and does not contain the path.              *)

Issue(path, message) == [path |-> path, message |-> message]

\* api/openai/analyze: AnalyzeRequestSchema, for a body with one user message
AnalyzeIssues(body) ==
  (IF ~body.hasMessages THEN <<Issue("messages", "Required")>>
   ELSE IF Len(body.content) < 1
   THEN <<Issue("messages.0.content", "String must contain at least 1 character(s)")>>
   ELSE <<>>)
  \o (IF ~body.hasProfile THEN <<Issue("userProfile", "Required")>> ELSE <<>>)

\* api/elevenlabs/voice: VoiceRequestSchema
VoiceIssues(body) ==
  (IF ~body.hasText THEN <<Issue("text", "Required")>>
   ELSE IF Len(body.text) < 1
   THEN <<Issue("text", "String must contain at least 1 character(s)")>>
   ELSE <<>>)
  \o (IF ~body.hasVoiceId THEN <<Issue("voiceId", "Required")>> ELSE <<>>)

EmailTypes == {"student_invitation", "teacher_invitation", "contact", "welcome"}

\* api/resend/send: EmailRequestSchema
EmailIssues(body) ==
  (IF body.emailType = Undefined THEN <<Issue("emailType", "Required")>>
   ELSE IF body.emailType \notin EmailTypes
   THEN <<Issue("emailType", "Invalid enum value")>>
   ELSE <<>>)
  \o (IF ~body.toIsEmail THEN <<Issue("to", "Invalid email")>> ELSE <<>>)
  \o (IF ~body.hasData THEN <<Issue("data", "Required")>> ELSE <<>>)

ActionTypes ==
  {"login", "logout", "conversation_start", "conversation_end", "settings_change",
   "profile_update", "study_plan_action", "vocabulary_practice", "voice_interaction",
   "page_view", "feature_usage"}

\* api/users/[userId]/activity/logs: ActivityLogRequestSchema
ActivityIssues(body) ==
  IF body.actionType = Undefined THEN <<Issue("actionType", "Required")>>
  ELSE IF body.actionType \notin ActionTypes
  THEN <<Issue("actionType", "Invalid enum value")>>
  ELSE <<>>

ConversationActions == {"start_conversation", "send_message", "end_conversation"}

\* api/elevenlabs/conversation: ConversationRequestSchema; agentId, message,
\* conversationId and config are optional
ConversationIssues(body) ==
  IF body.action = Undefined THEN <<Issue("action", "Required")>>
  ELSE IF body.action \notin ConversationActions
  THEN <<Issue("action", "Invalid enum value")>>
  ELSE <<>>

RECURSIVE Messages(_)
Messages(issues) ==
  IF issues = <<>> THEN <<>> ELSE <<Head(issues).message>> \o Messages(Tail(issues))

\* new ValidationError(`Invalid request data: ${issues.map(e => e.message).join(', ')}`)
InvalidRequestData(issues) ==
  Err("ValidationError", <<"Invalid request data">> \o Messages(issues))

----------------------------------------------------------------------------
(* src/services/ResendService.ts (unnamed/part_004) *)

getRequiredFields(emailType) ==
  CASE emailType = "student_invitation" ->
         {"studentName", "teacherName", "invitationLink", "language"}
    [] emailType = "teacher_invitation" ->
         {"teacherName", "studentName", "invitationLink", "language"}
    [] emailType = "contact" -> {"name", "email", "message"}
    [] emailType = "welcome" -> {"userName", "language", "dashboardLink"}

\* validateEmailData: the required fields whose value in data is falsy;
\* data is modelled by the set of its fields that hold a truthy value
missingFields(emailType, data) == getRequiredFields(emailType) \ data

----------------------------------------------------------------------------
(* State *)

VARIABLES
  env,        \* process.env: API_SECRET_KEY, NODE_ENV
  req,        \* req[r]: the inbound request r (method, headers, path, body)
  pc,         \* pc[r]: where the handler of r is
  auth,       \* auth[r]: req.auth, the AuthContext attached by authMiddleware
  events,     \* events[r]: what the handling of r did, in order: log inserts,
              \*   cache operations, collaborator and provider calls, responses
  result,     \* result[r]: the value the service method returned to the handler
  cache,      \* cacheService: key -> [v, t], t the expiry instant
  actionLogs, \* the user_action_logs table: user -> number of rows
  now,        \* Date.now(), in seconds
  ticks,      \* how many times the clock has advanced
  faults,     \* which collaborators fail: the log sink's inserts, cacheService.set
  rateLimitMap \* api/contact/send: client ip -> instants of its accepted requests

vars == <<env, req, pc, auth, events, result, cache, actionLogs, now, ticks,
          faults, rateLimitMap>>

NoBody == [none |-> TRUE]

NoReq ==
  [ep |-> Undefined, method |-> Undefined, authorization |-> NoHeader,
   apiKey |-> Undefined, userId |-> Undefined, body |-> NoBody]

Users == {"u1", "u2", "admin"}

\* the profiles table: user_role by user_id
ProfileRole == [u1 |-> "student", u2 |-> "student", admin |-> "admin"]

\* an event of a request: op is "log" (an insert into unified_logs; what is
\* the event category or type, status the response_status it records),
\* "respond" (res.status(status).json(body) or .end()), "cache" (get, set),
\* "verify" (supabase.auth.getUser), "provider" (a call of a provider API),
\* "db" (a query of another table)
Ev(op, what, status, body) == [op |-> op, what |-> what, status |-> status, body |-> body]

\* an insert into unified_logs; when the sink fails the logging service
\* reports it on the console and returns
Log(what, status) ==
  Ev("log", what, status, IF faults.sink THEN [failed |-> TRUE] ELSE NoBody)
\* LoggingService.logApiCall with the method, endpoint and duration it is given
LogApiCall(status, method, endpoint, duration) ==
  Ev("log", "api_call", status,
     [method |-> method, endpoint |-> endpoint, duration |-> duration,
      failed |-> faults.sink])
\* the handling of a call begins: the instant a later Date.now() is compared with
Started(service, time) == Ev("start", service, 0, [at |-> time])
Respond(status, body) == Ev("respond", "json", status, body)
RespondEnd(status) == Ev("respond", "end", status, NoBody)

\* asyncHandlerCatch without the call of handleError
asyncHandlerCatchUnlogged(error, time) ==
  << Respond(getStatusCode(error), createErrorResponse(error, env.NODE_ENV, time)) >>

\* asyncHandler's catch: ErrorHandler.handleError logs the error, then the
\* error response is written
asyncHandlerCatch(error, time) ==
  << Log("error", getStatusCode(error)),
     Respond(getStatusCode(error), createErrorResponse(error, env.NODE_ENV, time)) >>

Events(r, op) == SelectSeq(events[r], LAMBDA e : e.op = op)
Count(r, op, what) == Len(SelectSeq(events[r], LAMBDA e : e.op = op /\ e.what = what))

\* the response the client receives: the first one written
Status(r) == Events(r, "respond")[1].status
Responded(r) == Events(r, "respond") # <<>>

NoFaults == [sink |-> FALSE, cacheSet |-> FALSE]

ClientIPs == {"ip1", "ip2"}

\* the module state after the modules are loaded
InitState ==
  /\ rateLimitMap = [ip \in ClientIPs |-> {}]
  /\ req = [r \in Req |-> NoReq]
  /\ pc = [r \in Req |-> "idle"]
  /\ auth = [r \in Req |-> NoAuth]
  /\ events = [r \in Req |-> <<>>]
  /\ result = [r \in Req |-> NoValue]
  /\ cache = <<>>
  /\ actionLogs = [u \in Users |-> 0]
  /\ now = 0
  /\ ticks = 0

\* the state after the modules are loaded, for the given configurations and
\* collaborator failures
InitEnv(secrets, nodeEnvs, faultSet) ==
  /\ env \in [API_SECRET_KEY : secrets, NODE_ENV : nodeEnvs, RESEND_API_KEY : {"re_key"}]
  /\ faults \in faultSet
  /\ InitState

InitWith(secrets) == InitEnv(secrets, {"production"}, {NoFaults})

Init == InitWith({"secret"})

----------------------------------------------------------------------------
(* The handlers *)

Finish(r, evs) ==
  /\ events' = [events EXCEPT ![r] = @ \o evs]
  /\ pc' = [pc EXCEPT ![r] = "done"]

MethodNotAllowed(message, time) ==
  Respond(405, [error |-> "Method Not Allowed", message |-> message, timestamp |-> time])

\* the request arrives and the handler runs up to its first await: the CORS
\* preflight and the method check (the activity endpoint checks the method
\* only after authentication)
Receive(r, inputs) ==
  /\ pc[r] = "idle"
  /\ \E rq \in inputs :
       /\ req' = [req EXCEPT ![r] = rq]
       /\ IF rq.method = "OPTIONS" THEN Finish(r, <<RespondEnd(200)>>)
          ELSE IF rq.ep # "activity" /\ rq.method # "POST"
          THEN Finish(r, <<MethodNotAllowed("Only POST requests are allowed", now)>>)
          ELSE /\ pc' = [pc EXCEPT ![r] = "auth"]
               /\ UNCHANGED events
  /\ UNCHANGED <<env, faults, rateLimitMap, auth, result, cache, actionLogs, now, ticks>>

\* authMiddleware.authMiddleware: on failure it writes the 401 response and
\* rethrows; the handler rethrows and asyncHandler's catch handles the error
Authenticate(r) ==
  /\ pc[r] = "auth"
  /\ \E outcome \in (IF CallsGetUser(req[r].authorization)
                     THEN GetUserOutcomes(req[r].authorization.token)
                     ELSE {"not_called"}) :
       LET res == authenticate(req[r].authorization, req[r].apiKey,
                               env.API_SECRET_KEY, outcome)
           verify == IF CallsGetUser(req[r].authorization)
                     THEN <<Ev("verify", outcome, 0, NoBody)>> ELSE <<>>
       IN  IF res.ok
           THEN /\ auth' = [auth EXCEPT ![r] = res.ctx]
                /\ events' = [events EXCEPT ![r] = @ \o verify]
                /\ pc' = [pc EXCEPT ![r] = "serve"]
           ELSE /\ Finish(r, verify
                        \o << Respond(IF res.error.cls = "AuthenticationError"
                                      THEN 401 ELSE 500,
                                      [error |-> "Authentication Error",
                                       message |-> res.error.message,
                                       timestamp |-> now]) >>
                        \o asyncHandlerCatch(res.error, now))
                /\ UNCHANGED auth
  /\ UNCHANGED <<env, faults, rateLimitMap, req, result, cache, actionLogs, now, ticks>>

\* the success body of the analyze and voice handlers
SuccessBody(data, time) == [success |-> TRUE, data |-> data, timestamp |-> time]

CacheOp(what) == Ev("cache", what, 0, NoBody)
\* a cacheService.set(key, value, service) that throws
CacheSetThrows(value) == Ev("cache", "set_throws", 0, value)
ProviderCall(service, status) == Ev("provider", service, status, NoBody)
Db(what) == Ev("db", what, 0, NoBody)

\* OpenAIService.getFallbackAnalysis
getFallbackAnalysis == [kind |-> "fallback", content |-> <<>>, by |-> 0]

\* OpenAIService.parseAnalysisResponse, by what the completion holds: JSON with
\* a string or no summary ("ok"), JSON whose summary is a truthy value that is
\* no string, which is passed on as it is ("ok_summary_not_string"), or no
\* JSON, for which it returns the fallback analysis
parseAnalysisResponse(outcome, content, r) ==
  IF outcome = "ok" THEN [kind |-> "analysis", content |-> content, by |-> r]
  ELSE IF outcome = "ok_summary_not_string"
  THEN [kind |-> "analysis_summary_not_string", content |-> content, by |-> r]
  ELSE getFallbackAnalysis

\* api/openai/analyze after authentication: schema validation, then
\* analyzeConversation up to the provider call: key, cache lookup, and on a
\* hit the cached value goes back to the caller
AnalyzeServe(r) ==
  /\ pc[r] = "serve"
  /\ req[r].ep = "analyze"
  /\ LET issues == AnalyzeIssues(req[r].body)
         cacheKey == generateOpenAIKey(req[r].body.content)
         cached == CacheGet(cache, cacheKey, now)
     IN  IF issues # <<>>
         THEN /\ Finish(r, asyncHandlerCatch(InvalidRequestData(issues), now))
              /\ UNCHANGED <<result, cache>>
         ELSE /\ cache' = CacheAfterGet(cache, cacheKey, now)
              /\ IF cached # NoValue
                 THEN /\ result' = [result EXCEPT ![r] = cached]
                      /\ Finish(r, << CacheOp("get"), Log("cache_hit", 0),
                                      Respond(200, SuccessBody(cached, now)) >>)
                 ELSE /\ events' = [events EXCEPT ![r] =
                                      @ \o << CacheOp("get"), Log("cache_miss", 0) >>]
                      /\ pc' = [pc EXCEPT ![r] = "provider"]
                      /\ UNCHANGED result
  /\ UNCHANGED <<env, faults, rateLimitMap, req, auth, actionLogs, now, ticks>>

\* analyzeConversation after the cache miss: the prompt lookup, the call of
\* the completion API, parsing, caching, logging; every failure ends in the
\* fallback analysis, and the handler answers 200
AnalyzeProvider(r) ==
  /\ pc[r] = "provider"
  /\ req[r].ep = "analyze"
  /\ \E outcome \in {"ok", "ok_summary_not_string", "unparseable", "empty", "throws",
                      "no_prompt"} :
       LET cacheKey == generateOpenAIKey(req[r].body.content)
           parsed == parseAnalysisResponse(outcome, req[r].body.content, r)
           called == IF outcome = "no_prompt" THEN <<>>
                     ELSE << ProviderCall("openai", IF outcome = "throws" THEN 500 ELSE 200) >>
       IN  IF outcome \in {"ok", "ok_summary_not_string", "unparseable"} /\ faults.cacheSet
           THEN /\ result' = [result EXCEPT ![r] = getFallbackAnalysis]
                /\ Finish(r, << Db("analysis_prompts") >> \o called
                             \o << CacheSetThrows(parsed), Log("api_call", 500),
                                   Respond(200, SuccessBody(getFallbackAnalysis, now)) >>)
                /\ UNCHANGED cache
           ELSE IF outcome \in {"ok", "ok_summary_not_string", "unparseable"}
           THEN /\ cache' = CacheSet(cache, cacheKey, parsed, "openai", now)
                /\ result' = [result EXCEPT ![r] = parsed]
                /\ Finish(r, << Db("analysis_prompts") >> \o called
                             \o << CacheOp("set"), Log("api_call", 200),
                                   Respond(200, SuccessBody(parsed, now)) >>)
           ELSE /\ result' = [result EXCEPT ![r] = getFallbackAnalysis]
                /\ Finish(r, << Db("analysis_prompts") >> \o called
                             \o << Log("api_call", 500),
                                   Respond(200, SuccessBody(getFallbackAnalysis, now)) >>)
                /\ UNCHANGED cache
  /\ UNCHANGED <<env, faults, rateLimitMap, req, auth, actionLogs, now, ticks>>

\* api/elevenlabs/voice after authentication: schema validation, then
\* generateVoice up to the provider call
VoiceServe(r) ==
  /\ pc[r] = "serve"
  /\ req[r].ep = "voice"
  /\ LET issues == VoiceIssues(req[r].body)
         cacheKey == generateElevenLabsVoiceKey(req[r].body.text)
         cached == CacheGet(cache, cacheKey, now)
     IN  IF issues # <<>>
         THEN /\ Finish(r, asyncHandlerCatch(InvalidRequestData(issues), now))
              /\ UNCHANGED <<result, cache>>
         ELSE /\ cache' = CacheAfterGet(cache, cacheKey, now)
              /\ IF cached # NoValue
                 THEN /\ result' = [result EXCEPT ![r] = cached]
                      /\ Finish(r, << CacheOp("get"), Log("cache_hit", 0),
                                      Respond(200, SuccessBody(cached, now)) >>)
                 ELSE /\ events' = [events EXCEPT ![r] =
                                      @ \o << CacheOp("get"), Log("cache_miss", 0) >>]
                      /\ pc' = [pc EXCEPT ![r] = "provider"]
                      /\ UNCHANGED result
  /\ UNCHANGED <<env, faults, rateLimitMap, req, auth, actionLogs, now, ticks>>

\* generateVoice after the cache miss: the text-to-speech call; a response
\* that is not ok, or a failed fetch, becomes ExternalAPIError
VoiceProvider(r) ==
  /\ pc[r] = "provider"
  /\ req[r].ep = "voice"
  /\ \E outcome \in {"ok", "not_ok", "throws"} :
       LET cacheKey == generateElevenLabsVoiceKey(req[r].body.text)
           voice == [kind |-> "voice", content |-> req[r].body.text, by |-> r]
       IN  IF outcome = "ok" /\ faults.cacheSet
           THEN /\ Finish(r, << ProviderCall("elevenlabs", 200), CacheSetThrows(voice),
                                Log("api_call", 500) >>
                             \o asyncHandlerCatch(
                                  ExternalAPIError(<<"Failed to generate voice with ElevenLabs">>,
                                                   "elevenlabs"), now))
                /\ UNCHANGED <<result, cache>>
           ELSE IF outcome = "ok"
           THEN /\ cache' = CacheSet(cache, cacheKey, voice, "elevenlabs", now)
                /\ result' = [result EXCEPT ![r] = voice]
                /\ Finish(r, << ProviderCall("elevenlabs", 200), CacheOp("set"),
                                Log("api_call", 200),
                                Respond(200, SuccessBody(voice, now)) >>)
           ELSE /\ Finish(r, << ProviderCall("elevenlabs", 500), Log("api_call", 500) >>
                             \o asyncHandlerCatch(
                                  ExternalAPIError(<<"Failed to generate voice with ElevenLabs">>,
                                                   "elevenlabs"), now))
                /\ UNCHANGED <<result, cache>>
  /\ UNCHANGED <<env, faults, rateLimitMap, req, auth, actionLogs, now, ticks>>

\* requiredOfAction that asks send_message for the conversationId alone
requiredOfActionWithoutMessage(body) ==
  IF body.action = "start_conversation" THEN
    IF ~Truthy(body.agentId) THEN <<"agentId is required for start_conversation">> ELSE <<>>
  ELSE IF body.action = "send_message" THEN
    IF ~Truthy(body.conversationId)
    THEN <<"conversationId and message are required for send_message">> ELSE <<>>
  ELSE
    IF ~Truthy(body.conversationId)
    THEN <<"conversationId is required for end_conversation">> ELSE <<>>

\* the fields the switch of the conversation handler requires of an action
requiredOfAction(body) ==
  IF body.action = "start_conversation" THEN
    IF ~Truthy(body.agentId) THEN <<"agentId is required for start_conversation">> ELSE <<>>
  ELSE IF body.action = "send_message" THEN
    IF ~Truthy(body.conversationId) \/ ~Truthy(body.message)
    THEN <<"conversationId and message are required for send_message">> ELSE <<>>
  ELSE
    IF ~Truthy(body.conversationId)
    THEN <<"conversationId is required for end_conversation">> ELSE <<>>

\* the message of the ExternalAPIError the service method of an action throws
conversationFailure(action) ==
  IF action = "start_conversation" THEN <<"Failed to start ElevenLabs conversation">>
  ELSE IF action = "send_message"
  THEN <<"Failed to send message to ElevenLabs conversation">>
  ELSE <<"Failed to end ElevenLabs conversation">>

\* api/elevenlabs/conversation after authentication: schema validation and
\* the switch over the action, up to the call of the service method
ConversationServe(r) ==
  /\ pc[r] = "serve"
  /\ req[r].ep = "conversation"
  /\ LET issues == ConversationIssues(req[r].body)
     IN  IF issues # <<>>
         THEN Finish(r, asyncHandlerCatch(InvalidRequestData(issues), now))
         ELSE IF requiredOfAction(req[r].body) # <<>>
         THEN Finish(r, asyncHandlerCatch(
                          Err("ValidationError", requiredOfAction(req[r].body)), now))
         ELSE /\ pc' = [pc EXCEPT ![r] = "provider"]
              /\ events' = [events EXCEPT ![r] = @ \o << Started("elevenlabs", now) >>]
  /\ UNCHANGED <<env, faults, rateLimitMap, req, auth, result, cache, actionLogs, now, ticks>>

\* the service method the switch calls for an action
operationOfAction(action) ==
  IF action = "start_conversation" THEN "startConversation"
  ELSE IF action = "send_message" THEN "sendMessage"
  ELSE "endConversation"

\* a call of the conversation API made by a service method
ProviderOp(service, status, operation) ==
  Ev("provider", service, status, [operation |-> operation])

\* const startTime = Date.now() of the call that r is handling
startTime(r) ==
  LET starts == SelectSeq(events[r], LAMBDA e : e.op = "start")
  IN  starts[Len(starts)].body.at

\* ConversationProvider that calls the conversation API a second time when
\* the first call fails
ConversationProviderRetries(r) ==
  /\ pc[r] = "provider"
  /\ req[r].ep = "conversation"
  /\ \E outcome \in {"ok", "not_ok", "throws"} :
       LET data == [kind |-> "conversation", content |-> <<>>, by |-> r]
           operation == operationOfAction(req[r].body.action)
           first == IF outcome = "ok" THEN <<>>
                    ELSE << ProviderOp("elevenlabs", 500, operation) >>
       IN  /\ result' = [result EXCEPT ![r] = data]
           /\ Finish(r, first
                        \o << ProviderOp("elevenlabs", 200, operation), Log("api_call", 200),
                              Respond(200, [success |-> TRUE, data |-> data,
                                            action |-> req[r].body.action,
                                            timestamp |-> now]) >>)
  /\ UNCHANGED <<env, faults, rateLimitMap, req, auth, cache, actionLogs, now, ticks>>

\* startConversation, sendMessage, endConversation: the call of the
\* conversation API; a response that is not ok, or a failed fetch, becomes
\* ExternalAPIError; nothing is cached
ConversationProvider(r) ==
  /\ pc[r] = "provider"
  /\ req[r].ep = "conversation"
  /\ \E outcome \in {"ok", "not_ok", "throws"} :
       LET data == [kind |-> "conversation", content |-> <<>>, by |-> r]
           operation == operationOfAction(req[r].body.action)
           duration == now - startTime(r)
       IN  IF outcome = "ok"
           THEN /\ result' = [result EXCEPT ![r] = data]
                /\ Finish(r, << ProviderOp("elevenlabs", 200, operation),
                                LogApiCall(200, "POST", operation, duration),
                                Respond(200, [success |-> TRUE, data |-> data,
                                              action |-> req[r].body.action,
                                              timestamp |-> now]) >>)
           ELSE /\ Finish(r, << ProviderOp("elevenlabs", 500, operation),
                                LogApiCall(500, "POST", operation, duration) >>
                             \o asyncHandlerCatch(
                                  ExternalAPIError(conversationFailure(req[r].body.action),
                                                   "elevenlabs"), now))
                /\ UNCHANGED result
  /\ UNCHANGED <<env, faults, rateLimitMap, req, auth, cache, actionLogs, now, ticks>>

\* time passes
TickSeconds == serviceTTLs.elevenlabs

Tick ==
  /\ ticks < MaxTicks
  /\ now' = now + TickSeconds
  /\ ticks' = ticks + 1
  /\ UNCHANGED <<env, faults, rateLimitMap, req, pc, auth, events, result, cache, actionLogs>>

\* api/resend/send after authentication: schema validation, then sendEmail up
\* to the provider call; validateEmailData throws inside the try of sendEmail,
\* whose catch logs the call as failed and throws ExternalAPIError
EmailServe(r) ==
  /\ pc[r] = "serve"
  /\ req[r].ep = "email"
  /\ LET issues == EmailIssues(req[r].body)
         missing == missingFields(req[r].body.emailType, req[r].body.data)
     IN  IF issues # <<>>
         THEN Finish(r, asyncHandlerCatch(InvalidRequestData(issues), now))
         ELSE IF missing # {}
         THEN Finish(r, << Log("api_call", 500) >>
                        \o asyncHandlerCatch(
                             ExternalAPIError(<<"Failed to send email via Resend">>,
                                              "resend"), now))
         ELSE /\ pc' = [pc EXCEPT ![r] = "provider"]
              /\ UNCHANGED events
  /\ UNCHANGED <<env, faults, rateLimitMap, req, auth, result, cache, actionLogs, now, ticks>>

\* EmailProvider that answers from an earlier identical send instead of
\* calling the provider again
EmailProviderDeduplicated(r) ==
  /\ pc[r] = "provider"
  /\ req[r].ep = "email"
  /\ \E outcome \in {"ok", "error", "throws"} :
       LET sent == [kind |-> "email", content |-> <<>>, by |-> r]
           earlier == { q \in Req \ {r} : /\ pc[q] = "done" /\ req[q].body = req[r].body
                                          /\ result[q].kind = "email" }
       IN  IF earlier # {}
           THEN /\ result' = [result EXCEPT ![r] = result[CHOOSE q \in earlier : TRUE]]
                /\ Finish(r, << Respond(200, [success |-> TRUE,
                                              data |-> result[CHOOSE q \in earlier : TRUE],
                                              message |-> <<"Email sent successfully">>,
                                              timestamp |-> now]) >>)
           ELSE IF outcome = "ok"
           THEN /\ result' = [result EXCEPT ![r] = sent]
                /\ Finish(r, << ProviderCall("resend", 200), Log("email_sent", 0),
                                Log("api_call", 200),
                                Respond(200, [success |-> TRUE, data |-> sent,
                                              message |-> <<"Email sent successfully">>,
                                              timestamp |-> now]) >>)
           ELSE /\ Finish(r, << ProviderCall("resend", 500), Log("api_call", 500) >>
                             \o asyncHandlerCatch(
                                  ExternalAPIError(<<"Failed to send email via Resend">>,
                                                   "resend"), now))
                /\ UNCHANGED result
  /\ UNCHANGED <<env, faults, rateLimitMap, req, auth, cache, actionLogs, now, ticks>>

\* sendEmail from the call of the email provider on
EmailProvider(r) ==
  /\ pc[r] = "provider"
  /\ req[r].ep = "email"
  /\ \E outcome \in {"ok", "error", "throws"} :
       LET sent == [kind |-> "email", content |-> <<>>, by |-> r]
       IN  IF outcome = "ok"
           THEN /\ result' = [result EXCEPT ![r] = sent]
                /\ Finish(r, << ProviderCall("resend", 200), Log("email_sent", 0),
                                Log("api_call", 200),
                                Respond(200, [success |-> TRUE, data |-> sent,
                                              message |-> <<"Email sent successfully">>,
                                              timestamp |-> now]) >>)
           ELSE /\ Finish(r, << ProviderCall("resend", 500), Log("api_call", 500) >>
                             \o asyncHandlerCatch(
                                  ExternalAPIError(<<"Failed to send email via Resend">>,
                                                   "resend"), now))
                /\ UNCHANGED result
  /\ UNCHANGED <<env, faults, rateLimitMap, req, auth, cache, actionLogs, now, ticks>>

\* the caller is a token user other than the user of the path
CrossUser(r) ==
  /\ Truthy(req[r].userId)
  /\ auth[r].authMethod = "jwt"
  /\ auth[r].userId # req[r].userId

\* api/users/[userId]/activity/logs after authentication: the userId check,
\* the access check with its profile lookup, the method branch and the schema
\* validation of a POST, up to the query of user_action_logs
ActivityServe(r) ==
  /\ pc[r] = "serve"
  /\ req[r].ep = "activity"
  /\ \E profile \in (IF CrossUser(r) THEN {"found", "none"} ELSE {"not_called"}) :
       LET lookup == IF CrossUser(r) THEN << Db("profiles") >> ELSE <<>>
           role == IF profile = "found" THEN ProfileRole[auth[r].userId] ELSE Undefined
           issues == ActivityIssues(req[r].body)
       IN  IF ~Truthy(req[r].userId)
           THEN Finish(r, asyncHandlerCatch(
                            Err("ValidationError", <<"User ID is required">>), now))
           ELSE IF CrossUser(r) /\ role # "admin"
           THEN Finish(r, lookup \o asyncHandlerCatch(
                            Err("ValidationError",
                                <<"Access denied: You can only access your own activity logs">>),
                            now))
           ELSE IF req[r].method = "POST" /\ issues # <<>>
           THEN Finish(r, lookup \o asyncHandlerCatch(InvalidRequestData(issues), now))
           ELSE IF req[r].method \in {"POST", "GET"}
           THEN /\ events' = [events EXCEPT ![r] = @ \o lookup \o << Started("activity", now) >>]
                /\ pc' = [pc EXCEPT ![r] = "db"]
           ELSE Finish(r, lookup \o << Respond(405, [success |-> FALSE,
                                                     message |-> <<"Method not allowed">>]) >>)
  /\ UNCHANGED <<env, faults, rateLimitMap, req, auth, result, cache, actionLogs, now, ticks>>

\* the insert into, or the select from, user_action_logs and what follows it
ActivityDb(r) ==
  /\ pc[r] = "db"
  /\ req[r].ep = "activity"
  /\ \E outcome \in {"ok", "error"} :
       LET userId == req[r].userId
           what == IF req[r].method = "POST" THEN "insert" ELSE "select"
           status == IF req[r].method = "POST" THEN 201 ELSE 200
           rows == IF req[r].method = "POST" THEN actionLogs[userId] + 1
                   ELSE actionLogs[userId]
           failure == IF req[r].method = "POST"
                      THEN <<"Failed to create activity log">>
                      ELSE <<"Failed to fetch activity logs">>
       IN  IF outcome = "ok"
           THEN /\ actionLogs' = [actionLogs EXCEPT ![userId] = rows]
                /\ Finish(r, << Db(what),
                                LogApiCall(status, req[r].method, "activity", now - now),
                                Respond(status, [success |-> TRUE,
                                                 data |-> [userId |-> userId, rows |-> rows],
                                                 message |-> <<"Activity">>]) >>)
           ELSE /\ Finish(r, << Db(what) >> \o asyncHandlerCatch(Err("Error", failure), now))
                /\ UNCHANGED actionLogs
  /\ UNCHANGED <<env, faults, rateLimitMap, req, auth, result, cache, now, ticks>>

----------------------------------------------------------------------------
(* The cached capabilities: text analysis and voice synthesis *)

\* "Aa" and "BB", "C"
Contents == { <<65, 97>>, <<66, 66>>, <<67>> }

AnalyzeBody(hasMessages, content, hasProfile) ==
  [hasMessages |-> hasMessages, content |-> content, hasProfile |-> hasProfile]

VoiceBody(hasText, text, hasVoiceId) ==
  [hasText |-> hasText, text |-> text, hasVoiceId |-> hasVoiceId]

Request(ep, method, authorization, apiKey, userId, body) ==
  [ep |-> ep, method |-> method, authorization |-> authorization,
   apiKey |-> apiKey, userId |-> userId, body |-> body]

\* the requests sent to one of the two endpoints: a POST with a valid token
\* and each body, a POST with a token the identity provider does not know,
\* and the other methods with either token
CachedInputsOf(ep, bodies, body) ==
  { Request(ep, "POST", Bearer("t_u1"), Undefined, Undefined, b) : b \in bodies }
  \cup { Request(ep, method, Bearer("bad"), Undefined, Undefined, body) :
           method \in {"POST", "GET"} }
  \cup { Request(ep, method, Bearer("t_u1"), Undefined, Undefined, body) :
           method \in {"GET", "OPTIONS"} }

CachedInputs ==
  CachedInputsOf("analyze",
                 { AnalyzeBody(TRUE, c, TRUE) : c \in Contents \cup {<<>>} }
                   \cup { AnalyzeBody(FALSE, <<>>, FALSE) },
                 AnalyzeBody(TRUE, <<67>>, TRUE))
  \cup
  CachedInputsOf("voice",
                 { VoiceBody(TRUE, c, TRUE) : c \in Contents \cup {<<>>} }
                   \cup { VoiceBody(FALSE, <<>>, FALSE) },
                 VoiceBody(TRUE, <<67>>, TRUE))

Next ==
  \/ \E r \in Req : Receive(r, CachedInputs)
  \/ \E r \in Req : Authenticate(r)
  \/ \E r \in Req : AnalyzeServe(r)
  \/ \E r \in Req : AnalyzeProvider(r)
  \/ \E r \in Req : VoiceServe(r)
  \/ \E r \in Req : VoiceProvider(r)
  \/ Tick

Spec == Init /\ [][Next]_vars

----------------------------------------------------------------------------
(* Properties of the cached capabilities *)

Done(r) == pc[r] = "done"

\* the log records of r, of any kind
Logs(r) == Len(Events(r, "log"))

\* r ended at the preflight or at the method check
EndedAtMethod(r) ==
  Done(r) /\ (req[r].method = "OPTIONS" \/ (req[r].ep # "activity" /\ req[r].method # "POST"))

ServiceOf(rq) == IF rq.ep = "analyze" THEN "openai" ELSE "elevenlabs"

KeyOf(rq) ==
  IF rq.ep = "analyze" THEN generateOpenAIKey(rq.body.content)
  ELSE generateElevenLabsVoiceKey(rq.body.text)

Cached(rq) == rq.ep \in {"analyze", "voice"}

\* q completed with a successful provider result, which it stored
Stored(q) ==
  /\ Done(q) /\ Cached(req[q])
  /\ Count(q, "cache", "set") = 1
  /\ result[q].kind \in {"analysis", "analysis_summary_not_string", "voice"}

\* the instant q stored its result: the timestamp of its response
StoredAt(q) == Events(q, "respond")[1].body.timestamp

\* no other request has stored a value under the key of q
SoleWriter(q) ==
  \A p \in Req \ {q} :
    ~(Cached(req[p]) /\ Count(p, "cache", "set") = 1 /\ KeyOf(req[p]) = KeyOf(req[q]))

HasProviderCall(evs) == \E i \in 1 .. Len(evs) : evs[i].op = "provider"

\* r, with the payload of q, looks the cache up within the TTL of what q stored
SecondWithinTTL(q, r) ==
  /\ q # r /\ Stored(q)
  /\ pc[r] = "serve" /\ pc'[r] # "serve"
  /\ req[r].ep = req[q].ep /\ req[r].body = req[q].body
  /\ now <= StoredAt(q) + TTLOf(ServiceOf(req[q]))

\* C5: of two analysis (or voice) requests with identical payload, when the
\* first completed with a successful provider result, the second, issued
\* within the TTL of the namespace, is answered at the cache lookup with the
\* cached value and without a provider call; with no other writer of the key
\* that value is the one the first request obtained.
C5_SecondRequestServedFromCache ==
  [][\A q, r \in Req : SecondWithinTTL(q, r) =>
        /\ pc'[r] = "done"
        /\ ~HasProviderCall(events'[r])
        /\ events'[r][Len(events'[r])] = Respond(200, SuccessBody(result'[r], now))
        /\ SoleWriter(q) => result'[r] = result[q]]_vars

\* the second request was answered from the cache at the last instant of the
\* TTL with the value the first obtained
C5_Witness ==
  \E q, r \in Req :
    /\ q # r /\ Stored(q) /\ Done(r)
    /\ req[r].ep = req[q].ep /\ req[r].body = req[q].body
    /\ Count(r, "log", "cache_hit") = 1
    /\ ~HasProviderCall(events[r])
    /\ result[r] = result[q] /\ result[r].by = q
    /\ Events(r, "respond")[1].body.timestamp = StoredAt(q) + TTLOf(ServiceOf(req[q]))

\* the handler of r rejected the body at the schema
SchemaRejected(r) ==
  /\ Done(r) /\ Cached(req[r]) /\ auth[r] # NoAuth
  /\ (IF req[r].ep = "analyze" THEN AnalyzeIssues(req[r].body)
      ELSE VoiceIssues(req[r].body)) # <<>>

IssuesOf(rq) ==
  IF rq.ep = "analyze" THEN AnalyzeIssues(rq.body) ELSE VoiceIssues(rq.body)

InSeq(x, seq) == \E i \in 1 .. Len(seq) : seq[i] = x

\* C7 as stated: an authenticated request whose body violates the schema
\* fails with a 400 ValidationError whose message lists each violated field
\* by name, and no provider adapter is invoked.
C7_MessageNamesEachField ==
  \A r \in Req : SchemaRejected(r) =>
    LET body == Events(r, "respond")[1].body
        issues == IssuesOf(req[r])
    IN  /\ Status(r) = 400
        /\ body.error = "Validation Error"
        /\ ~HasProviderCall(events[r])
        /\ \A i \in 1 .. Len(issues) : InSeq(issues[i].path, body.message)

\* the identity provider rejected the token of r
TokenRejected(r) ==
  \E i \in 1 .. Len(events[r]) :
    events[r][i].op = "verify" /\ events[r][i].what \in {"error", "no_user"}

\* C8: a request whose bearer token the identity provider rejects (error or
\* no user) ends with AuthenticationError and status 401, and touches
\* neither the cache nor a provider.
C8_RejectedTokenIs401 ==
  \A r \in Req : TokenRejected(r) =>
    /\ Done(r)
    /\ Status(r) = 401
    /\ \A i \in 1 .. Len(Events(r, "respond")) :
         /\ Events(r, "respond")[i].status = 401
         /\ Events(r, "respond")[i].body.error = "Authentication Error"
    /\ Events(r, "respond")[2].body.code = "AUTHENTICATION_ERROR"
    /\ Events(r, "cache") = <<>>
    /\ ~HasProviderCall(events[r])
    /\ auth[r] = NoAuth

\* a token was rejected while the cache holds a value for the very payload
C8_Witness ==
  \E q, r \in Req :
    /\ q # r /\ Stored(q) /\ TokenRejected(r)
    /\ req[r].ep = req[q].ep /\ req[r].body = req[q].body
    /\ CacheGet(cache, KeyOf(req[r]), now) # NoValue

\* the contents of two requests to the same cached endpoint
ContentOf(rq) == IF rq.ep = "analyze" THEN rq.body.content ELSE rq.body.text

\* r was answered from the cache
Hit(r) == Done(r) /\ Cached(req[r]) /\ Count(r, "log", "cache_hit") = 1

\* C6 as stated: two requests derive the same cache key only if their
\* content is identical, so a cache hit never returns a value computed for
\* different content.
C6_KeysDifferWhenContentDiffers ==
  /\ \A q, r \in Req :
       (/\ Cached(req[q]) /\ Cached(req[r]) /\ req[q].ep = req[r].ep
        /\ ContentOf(req[q]) # ContentOf(req[r]))
       => KeyOf(req[q]) # KeyOf(req[r])
  /\ \A r \in Req :
       (Hit(r) /\ result[r].kind # "fallback") => result[r].content = ContentOf(req[r])

----------------------------------------------------------------------------
(* The email endpoint, with every combination of credentials *)

EmailBody(emailType, toIsEmail, hasData, data) ==
  [emailType |-> emailType, toIsEmail |-> toIsEmail, hasData |-> hasData, data |-> data]

WelcomeBody == EmailBody("welcome", TRUE, TRUE, getRequiredFields("welcome"))

Authorizations == {NoHeader, EmptyHeader, BasicHeader, Bearer("t_u1"), Bearer("bad")}

ApiKeys == {Undefined, "", "secret", "wrong"}

EmailInputs ==
  { Request("email", "POST", a, k, Undefined, WelcomeBody) :
      a \in Authorizations, k \in ApiKeys }
  \cup
  { Request("email", "POST", NoHeader, "secret", Undefined, b) :
      b \in { EmailBody("welcome", TRUE, TRUE, {"userName", "language"}),
              EmailBody("contact", TRUE, TRUE, {}),
              EmailBody("contact", TRUE, TRUE, getRequiredFields("contact")),
              EmailBody("unknown_type", TRUE, TRUE, {}),
              EmailBody(Undefined, FALSE, FALSE, {}) } }
  \cup
  { Request("email", method, NoHeader, "secret", Undefined, WelcomeBody) :
      method \in {"GET", "OPTIONS"} }

InitEmail == InitWith({"secret", "", Undefined})

NextEmail ==
  \/ \E r \in Req : Receive(r, EmailInputs)
  \/ \E r \in Req : Authenticate(r)
  \/ \E r \in Req : EmailServe(r)
  \/ \E r \in Req : EmailProvider(r)

SpecEmail == InitEmail /\ [][NextEmail]_vars

\* authMiddleware has run for r
PastAuth(r) == pc[r] \notin {"idle", "auth"} /\ ~EndedAtMethod(r)

Is401(r) ==
  /\ Done(r) /\ auth[r] = NoAuth
  /\ Status(r) = 401
  /\ Events(r, "respond")[1].body.error = "Authentication Error"

HasVerify(r, outcomes) ==
  \E i \in 1 .. Len(events[r]) : events[r][i].op = "verify" /\ events[r][i].what \in outcomes

\* C2 as stated: an authenticated email request whose body passes the schema
\* but whose data lacks a field the template of its emailType requires is
\* answered 400 (ValidationError), and the email provider is never called.
C2_MissingTemplateFieldIs400 ==
  \A r \in Req :
    (/\ Done(r) /\ req[r].ep = "email" /\ auth[r] # NoAuth
     /\ EmailIssues(req[r].body) = <<>>
     /\ missingFields(req[r].body.emailType, req[r].body.data) # {})
    => /\ Status(r) = 400
       /\ Events(r, "respond")[1].body.error = "Validation Error"
       /\ ~HasProviderCall(events[r])

\* C9: a request without Authorization header and with a static-key header
\* is authenticated as "system" with authMethod api_key when the key equals
\* the configured secret exactly, and is answered 401 for every other key
\* and when no secret is configured.
C9_StaticKeyExactMatch ==
  \A r \in Req :
    (PastAuth(r) /\ req[r].authorization = NoHeader /\ req[r].apiKey # Undefined)
    => IF Truthy(env.API_SECRET_KEY) /\ req[r].apiKey = env.API_SECRET_KEY
       THEN /\ auth[r] = [userId |-> "system", authMethod |-> "api_key"]
            /\ Responded(r) => Status(r) # 401
       ELSE Is401(r)

\* one request got in with the secret while another was refused a wrong key
C9_Witness ==
  \E q, r \in Req :
    /\ PastAuth(q) /\ req[q].authorization = NoHeader /\ req[q].apiKey = "secret"
    /\ auth[q].userId = "system" /\ Done(q) /\ Status(q) = 200
    /\ PastAuth(r) /\ req[r].authorization = NoHeader /\ req[r].apiKey = "wrong"
    /\ Is401(r)

\* the outcome of r is that of the verification of its token
TokenDecided(r) ==
  /\ auth[r] # NoAuth <=> HasVerify(r, {"user"})
  /\ auth[r] # NoAuth =>
       auth[r] = [userId |-> TokenUser[req[r].authorization.token], authMethod |-> "jwt"]
  /\ auth[r] = NoAuth => Is401(r)

\* the outcome of r is that of the comparison of its key with the secret
KeyDecided(r) ==
  /\ ~HasVerify(r, {"user", "error", "no_user", "throws"})
  /\ auth[r] # NoAuth <=> (Truthy(env.API_SECRET_KEY) /\ req[r].apiKey = env.API_SECRET_KEY)
  /\ auth[r] # NoAuth => auth[r] = [userId |-> "system", authMethod |-> "api_key"]
  /\ auth[r] = NoAuth => Is401(r)

\* C10 as stated: whenever an Authorization header is present the result is
\* decided by the token alone and the static key is never consulted; the
\* static key is used only when no Authorization header is present; with
\* neither header the request fails with AuthenticationError.
C10_AnyAuthorizationHeaderDecides ==
  \A r \in Req : PastAuth(r) =>
    /\ req[r].authorization # NoHeader => TokenDecided(r)
    /\ (req[r].authorization = NoHeader /\ req[r].apiKey # Undefined) => KeyDecided(r)
    /\ (req[r].authorization = NoHeader /\ req[r].apiKey = Undefined) => Is401(r)

\* C10, amended: whenever a non-empty Authorization header is present the
\* result is decided by the token alone and the static key is never
\* consulted (an invalid bearer with a valid static key still fails); the
\* static key is used when the Authorization header is absent or empty; with
\* neither a non-empty Authorization header nor a non-empty key the request
\* fails with AuthenticationError.
C10_NonEmptyAuthorizationHeaderDecides ==
  \A r \in Req : PastAuth(r) =>
    /\ Truthy(req[r].authorization.scheme) => TokenDecided(r)
    /\ (~Truthy(req[r].authorization.scheme) /\ Truthy(req[r].apiKey)) => KeyDecided(r)
    /\ (~Truthy(req[r].authorization.scheme) /\ ~Truthy(req[r].apiKey)) =>
         /\ Is401(r)
         /\ ~HasVerify(r, {"user", "error", "no_user", "throws"})
         /\ Events(r, "respond")[1].body.message = <<"No authentication provided">>

\* an invalid bearer failed although the valid key came with it, and a valid
\* key got in under an empty Authorization header
C10_Witness ==
  \E q, r \in Req :
    /\ PastAuth(q) /\ req[q].authorization = Bearer("bad") /\ req[q].apiKey = "secret"
    /\ env.API_SECRET_KEY = "secret" /\ Is401(q)
    /\ PastAuth(r) /\ req[r].authorization = EmptyHeader /\ req[r].apiKey = "secret"
    /\ auth[r].authMethod = "api_key"

----------------------------------------------------------------------------
(* The per-user activity log endpoint *)

ActivityBody(actionType) == [actionType |-> actionType]

ActivityInputs ==
  { Request("activity", "GET", a, k, u, ActivityBody(Undefined)) :
      a \in {Bearer("t_u1"), Bearer("t_admin")}, k \in {Undefined}, u \in {"u1", "u2"} }
  \cup
  { Request("activity", "POST", a, k, u, ActivityBody("login")) :
      a \in {Bearer("t_u1"), Bearer("t_admin")}, k \in {Undefined}, u \in {"u1", "u2"} }
  \cup
  { Request("activity", method, NoHeader, "secret", u, ActivityBody("login")) :
      method \in {"GET", "POST"}, u \in {"u1", "u2"} }
  \cup
  { Request("activity", "POST", Bearer("t_u1"), Undefined, "u1", ActivityBody("bogus")),
    Request("activity", "GET", Bearer("t_u1"), Undefined, Undefined, ActivityBody(Undefined)),
    Request("activity", "GET", Bearer("bad"), Undefined, "u1", ActivityBody(Undefined)),
    Request("activity", "PUT", Bearer("t_u1"), Undefined, "u1", ActivityBody("login")),
    Request("activity", "PUT", NoHeader, Undefined, "u1", ActivityBody("login")),
    Request("activity", "OPTIONS", NoHeader, Undefined, "u1", ActivityBody(Undefined)) }

NextActivity ==
  \/ \E r \in Req : Receive(r, ActivityInputs)
  \/ \E r \in Req : Authenticate(r)
  \/ \E r \in Req : ActivityServe(r)
  \/ \E r \in Req : ActivityDb(r)

SpecActivity == Init /\ [][NextActivity]_vars

\* r queried user_action_logs
TouchedRows(r) == Count(r, "db", "select") + Count(r, "db", "insert") > 0

\* C3 as stated: a token caller whose identity differs from the userId of the
\* path and whose profile role is not admin receives 403
\* (AuthorizationError), and no activity log row is read or inserted.
C3_CrossUserIs403 ==
  \A r \in Req :
    (/\ Done(r) /\ req[r].ep = "activity" /\ CrossUser(r)
     /\ ProfileRole[auth[r].userId] # "admin")
    => /\ Status(r) = 403
       /\ Events(r, "respond")[1].body.error = "Authorization Error"
       /\ ~TouchedRows(r)

\* C4 as stated: rows of user U are read or inserted only when the caller is
\* token-authenticated as U or as an admin; a static-key caller is not served
\* another user's logs.
C4_RowsOnlyForSelfOrAdmin ==
  \A r \in Req :
    (req[r].ep = "activity" /\ TouchedRows(r))
    => /\ auth[r].authMethod = "jwt"
       /\ \/ auth[r].userId = req[r].userId
          \/ ProfileRole[auth[r].userId] = "admin"

----------------------------------------------------------------------------
(* The four provider-backed endpoints, with token and static-key callers,  *)
(* and with the log sink and the cache write failing or not                *)

ConversationBody(action, agentId, conversationId, message) ==
  [action |-> action, agentId |-> agentId, conversationId |-> conversationId,
   message |-> message]

\* the credentials of a request: a valid token, or the static key alone
Credentials == { <<Bearer("t_u1"), Undefined>>, <<NoHeader, "secret">> }

ProviderInputs ==
  { Request(ep, "POST", c[1], c[2], Undefined, b) :
      c \in Credentials,
      <<ep, b>> \in { <<"analyze", AnalyzeBody(TRUE, <<67>>, TRUE)>>,
                      <<"voice", VoiceBody(TRUE, <<67>>, TRUE)>>,
                      <<"conversation",
                        ConversationBody("start_conversation", "agent", Undefined, Undefined)>>,
                      <<"email", WelcomeBody>> } }
  \cup
  { Request("conversation", "POST", Bearer("t_u1"), Undefined, Undefined, b) :
      b \in { ConversationBody("send_message", Undefined, "c1", "hello"),
              ConversationBody("end_conversation", Undefined, "c1", Undefined),
              ConversationBody("send_message", Undefined, "c1", ""),
              ConversationBody("send_message", Undefined, Undefined, "hello"),
              ConversationBody("start_conversation", "", Undefined, Undefined),
              ConversationBody("end_conversation", "agent", Undefined, Undefined),
              ConversationBody("restart", Undefined, Undefined, Undefined) } }
  \cup
  { Request("voice", "POST", Bearer("bad"), Undefined, Undefined,
            VoiceBody(TRUE, <<67>>, TRUE)),
    Request("conversation", "GET", Bearer("t_u1"), Undefined, Undefined,
            ConversationBody("start_conversation", "agent", Undefined, Undefined)),
    Request("conversation", "OPTIONS", NoHeader, Undefined, Undefined,
            ConversationBody(Undefined, Undefined, Undefined, Undefined)) }

InitProviders ==
  InitEnv({"secret"}, {"production"}, [sink : BOOLEAN, cacheSet : BOOLEAN])

NextProviders ==
  \/ \E r \in Req : Receive(r, ProviderInputs)
  \/ \E r \in Req : Authenticate(r)
  \/ \E r \in Req : AnalyzeServe(r)
  \/ \E r \in Req : AnalyzeProvider(r)
  \/ \E r \in Req : VoiceServe(r)
  \/ \E r \in Req : VoiceProvider(r)
  \/ \E r \in Req : ConversationServe(r)
  \/ \E r \in Req : ConversationProvider(r)
  \/ \E r \in Req : EmailServe(r)
  \/ \E r \in Req : EmailProvider(r)

SpecProviders == InitProviders /\ [][NextProviders]_vars

\* the endpoints documented as taking a token only
TokenOnly == {"analyze", "conversation", "voice"}

\* r carries the valid static key and no bearer token
KeyAlone(r) ==
  /\ req[r].authorization.scheme # "Bearer"
  /\ Truthy(env.API_SECRET_KEY) /\ req[r].apiKey = env.API_SECRET_KEY

HasOp(evs, ops) == \E i \in 1 .. Len(evs) : evs[i].op \in ops

\* C11 as stated: the text-analysis, voice-conversation and voice-synthesis
\* endpoints accept token authentication only: a request to one of them that
\* carries only a valid static key (no bearer token) does not reach
\* validation, the cache or the provider adapter.
C11_StaticKeyAloneIsRefused ==
  \A r \in Req :
    (req[r].ep \in TokenOnly /\ KeyAlone(r))
    => /\ pc[r] \notin {"serve", "provider"}
       /\ ~HasOp(events[r], {"cache", "provider", "db"})
       /\ Done(r) => (EndedAtMethod(r) \/ Is401(r))

\* the response of r carries an analysis whose summary is a string
SummaryIsString(body) == body.data.kind \in {"analysis", "fallback"}

\* C12 as stated: for every authenticated, schema-valid text-analysis
\* request the response is 200 with success:true and a data object containing
\* a summary string and a keyTopics array, whether the provider call
\* succeeds, fails, returns empty content, or no active prompt is found; a
\* provider failure is never surfaced to the caller as an error status.
C12_AnalysisAlways200WithSummary ==
  \A r \in Req :
    (/\ Done(r) /\ req[r].ep = "analyze" /\ auth[r] # NoAuth
     /\ AnalyzeIssues(req[r].body) = <<>>)
    => /\ Len(Events(r, "respond")) = 1
       /\ Status(r) = 200
       /\ Events(r, "respond")[1].body.success
       /\ SummaryIsString(Events(r, "respond")[1].body)

\* the endpoints whose provider failures are surfaced
Surfacing == {"conversation", "voice", "email"}

\* the provider was called and the call failed
ProviderFailed(evs) ==
  \E i \in 1 .. Len(evs) : evs[i].op = "provider" /\ evs[i].status = 500

\* the provider was called and answered
ProviderSucceeded(evs) ==
  \E i \in 1 .. Len(evs) : evs[i].op = "provider" /\ evs[i].status = 200

Responses(evs) == SelectSeq(evs, LAMBDA e : e.op = "respond")

\* C13: for the voice-conversation, voice-synthesis and email-send
\* capabilities, whenever the provider call fails (non-OK response, provider
\* error or network exception) on an authenticated valid request, the
\* failure is surfaced to the caller as an ExternalAPIError response with
\* status 502, nothing is written to the cache, and no fallback value is
\* returned.
C13_ProviderFailureIs502 ==
  [][\A r \in Req :
       (/\ pc[r] = "provider" /\ pc'[r] = "done" /\ req[r].ep \in Surfacing
        /\ ProviderFailed(events'[r]))
       => /\ auth[r] # NoAuth
          /\ Len(Responses(events'[r])) = 1
          /\ Responses(events'[r])[1].status = 502
          /\ Responses(events'[r])[1].body.error = "External API Error"
          /\ Responses(events'[r])[1].body.code = "EXTERNAL_API_ERROR"
          /\ cache' = cache
          /\ \A i \in 1 .. Len(events'[r]) :
               events'[r][i].op = "cache" => events'[r][i].what = "get"
          /\ result'[r] = NoValue]_vars

\* the provider failed for two requests to two different endpoints of these,
\* and both were answered 502
C13_Witness ==
  \E q, r \in Req :
    /\ q # r /\ Done(q) /\ Done(r)
    /\ req[q].ep \in Surfacing /\ req[r].ep \in Surfacing /\ req[q].ep # req[r].ep
    /\ ProviderFailed(events[q]) /\ ProviderFailed(events[r])
    /\ Status(q) = 502 /\ Status(r) = 502

RECURSIVE FirstRespond(_, _)
FirstRespond(evs, i) ==
  IF i > Len(evs) THEN 0
  ELSE IF evs[i].op = "respond" THEN i ELSE FirstRespond(evs, i + 1)

\* C15 as stated: for every request that ends in an error response, the
\* error is written to the log sink before the error body is sent to the
\* caller: log-then-respond ordering holds on every error path, including
\* authentication failure and method-not-allowed.
C15_ErrorLoggedBeforeResponse ==
  \A r \in Req :
    (Done(r) /\ Responded(r) /\ Status(r) >= 400)
    => \E i \in 1 .. Len(events[r]) :
         /\ events[r][i].op = "log" /\ events[r][i].what = "error"
         /\ i < FirstRespond(events[r], 1)

----------------------------------------------------------------------------
(* asyncHandler around a handler that throws, in every configuration of     *)
(* NODE_ENV, and the activity endpoint, whose queries fail with plain Errors *)

ErrorClasses ==
  {"ValidationError", "AuthenticationError", "AuthorizationError", "NotFoundError",
   "RateLimitError", "ExternalAPIError", "InternalServerError", "Error", "TypeError"}

\* the classes createErrorResponse and getStatusCode test for
ClassifiedClasses ==
  {"ValidationError", "AuthenticationError", "AuthorizationError", "NotFoundError",
   "RateLimitError", "ExternalAPIError"}

ThrownErrors ==
  { IF cls = "ExternalAPIError" THEN ExternalAPIError(<<msg>>, "resend")
    ELSE Err(cls, <<msg>>) :
      cls \in ErrorClasses, msg \in {"connect ECONNREFUSED 10.0.0.5:5432", "bad input"} }

Throw(error) == Ev("throw", error.cls, 0, error)

\* asyncHandler(fn)(req, res) where fn throws: the catch logs the error and
\* writes the error response
HandlerThrows(r) ==
  /\ pc[r] = "idle"
  /\ \E error \in ThrownErrors :
       /\ req' = [req EXCEPT ![r] = [NoReq EXCEPT !.ep = "wrapped", !.method = "POST"]]
       /\ Finish(r, << Throw(error) >> \o asyncHandlerCatch(error, now))
  /\ UNCHANGED <<env, faults, rateLimitMap, auth, result, cache, actionLogs, now, ticks>>

NodeEnvs == {"production", "development", "test", Undefined}

ErrorInputs ==
  { Request("activity", method, Bearer("t_u1"), Undefined, "u1", ActivityBody("login")) :
      method \in {"GET", "POST"} }

InitErrors == InitEnv({"secret"}, NodeEnvs, {NoFaults})

NextErrors ==
  \/ \E r \in Req : HandlerThrows(r)
  \/ \E r \in Req : Receive(r, ErrorInputs)
  \/ \E r \in Req : Authenticate(r)
  \/ \E r \in Req : ActivityServe(r)
  \/ \E r \in Req : ActivityDb(r)

SpecErrors == InitErrors /\ [][NextErrors]_vars

\* what the handler of r threw
Thrown(r) == SelectSeq(events[r], LAMBDA e : e.op = "throw")

GenericPhrase == <<"An unexpected error occurred">>

\* C17 as stated: for every error that is not one of the classified kinds
\* the response is kind Internal with status 500, and in every configuration
\* other than development (including when the environment setting is unset)
\* the caller-visible message is the generic phrase and never the original
\* error message.
C17_GenericMessageOutsideDevelopment ==
  \A r \in Req : (Done(r) /\ Responded(r)) =>
    LET body == Events(r, "respond")[1].body
    IN  /\ (Thrown(r) # <<>> /\ Thrown(r)[1].what \notin ClassifiedClasses)
            => /\ Status(r) = 500
               /\ body.error = "Internal Server Error"
               /\ body.code = "INTERNAL_SERVER_ERROR"
        /\ (Status(r) = 500 /\ body.error = "Internal Server Error"
             /\ env.NODE_ENV # "development")
            => body.message = GenericPhrase

\* the kind named in the body, by class
KindOf(cls) ==
  CASE cls = "ValidationError" -> "Validation Error"
    [] cls = "AuthenticationError" -> "Authentication Error"
    [] cls = "AuthorizationError" -> "Authorization Error"
    [] cls = "NotFoundError" -> "Not Found"
    [] cls = "RateLimitError" -> "Rate Limit Exceeded"
    [] cls = "ExternalAPIError" -> "External API Error"
    [] OTHER -> "Internal Server Error"

\* the table of the documentation: status by kind
StatusOfKind ==
  [k \in {"Validation Error", "Authentication Error", "Authorization Error", "Not Found",
          "Rate Limit Exceeded", "External API Error", "Internal Server Error"} |->
     CASE k = "Validation Error" -> 400
       [] k = "Authentication Error" -> 401
       [] k = "Authorization Error" -> 403
       [] k = "Not Found" -> 404
       [] k = "Rate Limit Exceeded" -> 429
       [] k = "External API Error" -> 502
       [] OTHER -> 500]

\* C18: every error maps to exactly one kind with a fixed status: Validation
\* 400, Authentication 401, Authorization 403, NotFound 404, RateLimit 429,
\* ExternalProvider 502, anything else 500; for every error instance the
\* status from getStatusCode equals the statusCode of the error's class and
\* the code in the body from createErrorResponse equals the code of the
\* class.
C18_OneKindWithFixedStatus ==
  \A r \in Req : (Done(r) /\ Thrown(r) # <<>>) =>
    LET error == Thrown(r)[1].body
        body == Events(r, "respond")[1].body
    IN  /\ Len(Events(r, "respond")) = 1
        /\ body.error = KindOf(error.cls)
        /\ Status(r) = StatusOfKind[body.error]
        /\ Status(r) = ClassStatusCode(error.cls)
        /\ Status(r) = getStatusCode(error)
        /\ body.code = ClassCode(error.cls)
        /\ Events(r, "log")[1].status = Status(r)

\* a RateLimitError was answered 429 and a TypeError 500
C18_Witness ==
  \E q, r \in Req :
    /\ Done(q) /\ Thrown(q) # <<>> /\ Thrown(q)[1].what = "RateLimitError"
    /\ Status(q) = 429 /\ Events(q, "respond")[1].body.code = "RATE_LIMIT_EXCEEDED"
    /\ Done(r) /\ Thrown(r) # <<>> /\ Thrown(r)[1].what = "TypeError"
    /\ Status(r) = 500 /\ Events(r, "respond")[1].body.code = "INTERNAL_SERVER_ERROR"

----------------------------------------------------------------------------
(* Response bodies and methods *)

\* the JSON bodies r has written
JsonBodies(r) == SelectSeq(events[r], LAMBDA e : e.op = "respond" /\ e.what = "json")

\* C16 as stated: every JSON response body emitted by any endpoint, success
\* or error, contains a timestamp field, and every error response body has
\* the shape {error, message, code?, timestamp}.
C16_EveryBodyHasTimestamp ==
  \A r \in Req : \A i \in 1 .. Len(JsonBodies(r)) :
    LET e == JsonBodies(r)[i]
    IN  /\ "timestamp" \in DOMAIN e.body
        /\ e.status >= 400 =>
             /\ {"error", "message", "timestamp"} \subseteq DOMAIN e.body
             /\ DOMAIN e.body \subseteq {"error", "message", "code", "timestamp"}

\* the methods an endpoint declares as allowed
AllowedMethods(ep) ==
  IF ep \in {"health", "docs", "status"} THEN {"GET"}
  ELSE IF ep = "activity" THEN {"GET", "POST"}
  ELSE {"POST"}

\* C20 as stated: on every endpoint, a request whose method is outside the
\* endpoint's allowed set (GET for health and docs, POST for provider
\* endpoints, GET and POST for activity logs) fails with a 405 Method Not
\* Allowed response, regardless of whether the request carries credentials,
\* and without invoking a provider adapter.
C20_OtherMethodsAre405 ==
  \A r \in Req :
    (Done(r) /\ req[r].method \notin AllowedMethods(req[r].ep) \cup {"OPTIONS"})
    => /\ Status(r) = 405
       /\ ~HasProviderCall(events[r])

----------------------------------------------------------------------------
(* The public endpoints: health, docs, the contact form and the status      *)
(* handler; none is wrapped by asyncHandler, none authenticates or logs     *)

windowSeconds == 60
maxRequests == 1

\* validRequests with the instant at the end of the window still inside it
validRequestsInclusive(map, ip, time) == { t \in map[ip] : time - t <= windowSeconds }

\* checkRateLimit(ip): the instants of the ip inside the window
validRequests(map, ip, time) == { t \in map[ip] : time - t < windowSeconds }

\* checkRateLimit(ip): whether the request is let through
checkRateLimit(map, ip, time) == Cardinality(validRequests(map, ip, time)) < maxRequests

\* checkRateLimit(ip): the map it leaves
RateLimitMapAfter(map, ip, time) ==
  [map EXCEPT ![ip] = IF checkRateLimit(map, ip, time)
                      THEN validRequests(map, ip, time) \cup {time}
                      ELSE validRequests(map, ip, time)]

ContactBody(ip, firstName, lastName, email, message) ==
  [ip |-> ip, firstName |-> firstName, lastName |-> lastName, email |-> email,
   message |-> message]

\* the addresses emailRegex matches, among those sent
WellFormedEmails == {"a@b.co"}

ErrorBody(error, message, time) == [error |-> error, message |-> <<message>>, timestamp |-> time]

\* a public request arrives and its handler runs up to its first await: the
\* status handler answers every method alike; the others answer the
\* preflight and check the method; health and docs then answer; the contact
\* form goes on to the rate limiter
ReceivePublic(r, inputs) ==
  /\ pc[r] = "idle"
  /\ \E rq \in inputs, docs \in {"read", "missing"} :
       /\ req' = [req EXCEPT ![r] = rq]
       /\ IF rq.ep = "status"
          THEN Finish(r, << Respond(200, [status |-> "ok",
                                          message |-> <<"Ialla API is healthy">>,
                                          timestamp |-> now,
                                          environment |-> IF Truthy(env.NODE_ENV)
                                                          THEN env.NODE_ENV
                                                          ELSE "development"]) >>)
          ELSE IF rq.method = "OPTIONS" THEN Finish(r, <<RespondEnd(200)>>)
          ELSE IF rq.ep \in {"health", "docs"} /\ rq.method # "GET"
          THEN Finish(r, <<MethodNotAllowed("Only GET requests are allowed", now)>>)
          ELSE IF rq.ep = "contact" /\ rq.method # "POST"
          THEN Finish(r, <<MethodNotAllowed("Only POST requests are allowed", now)>>)
          ELSE IF rq.ep = "health"
          THEN Finish(r, << Respond(200, [status |-> "healthy", timestamp |-> now,
                                          environment |-> IF Truthy(env.NODE_ENV)
                                                          THEN env.NODE_ENV
                                                          ELSE "development"]) >>)
          ELSE IF rq.ep = "docs"
          THEN IF docs = "read"
               THEN Finish(r, << Ev("respond", "send", 200, NoBody) >>)
               ELSE Finish(r, << Respond(500, ErrorBody("Failed to load API documentation",
                                                        "OpenAPI specification not found",
                                                        now)) >>)
          ELSE /\ pc' = [pc EXCEPT ![r] = "serve"]
               /\ UNCHANGED events
  /\ UNCHANGED <<env, faults, rateLimitMap, auth, result, cache, actionLogs, now, ticks>>

\* the call of checkRateLimit(ip) by a request and what it returned
RateLimitCheck(map, ip, time) ==
  Ev("ratelimit", IF checkRateLimit(map, ip, time) THEN "ok" ELSE "exceeded", 0,
     [ip |-> ip, at |-> time])

\* api/contact/send after the method check: the rate limiter, the validation
\* of the form and the test of the email configuration
ContactServe(r) ==
  /\ pc[r] = "serve"
  /\ req[r].ep = "contact"
  /\ LET body == req[r].body
         checked == << RateLimitCheck(rateLimitMap, body.ip, now) >>
     IN  /\ rateLimitMap' = RateLimitMapAfter(rateLimitMap, body.ip, now)
         /\ IF ~checkRateLimit(rateLimitMap, body.ip, now)
            THEN Finish(r, checked \o << Respond(429, ErrorBody("Rate Limit Exceeded",
                   "Too many requests. Please wait 1 minute before submitting again.",
                   now)) >>)
            ELSE IF \/ ~Truthy(body.firstName) \/ ~Truthy(body.lastName)
                    \/ ~Truthy(body.email) \/ ~Truthy(body.message)
            THEN Finish(r, checked \o << Respond(400, ErrorBody("Validation Error",
                   "Missing required fields: firstName, lastName, email, message", now)) >>)
            ELSE IF body.email \notin WellFormedEmails
            THEN Finish(r, checked \o << Respond(400, ErrorBody("Validation Error",
                                                     "Invalid email format", now)) >>)
            ELSE IF ~Truthy(env.RESEND_API_KEY)
            THEN Finish(r, checked \o << Respond(500, ErrorBody("Service Unavailable",
                                                     "Email service not configured", now)) >>)
            ELSE /\ pc' = [pc EXCEPT ![r] = "provider"]
                 /\ events' = [events EXCEPT ![r] = @ \o checked]
  /\ UNCHANGED <<env, faults, req, auth, result, cache, actionLogs, now, ticks>>

\* api/contact/send from the call of the email provider on
ContactProvider(r) ==
  /\ pc[r] = "provider"
  /\ req[r].ep = "contact"
  /\ \E outcome \in {"ok", "not_ok", "throws"} :
       IF outcome = "ok"
       THEN Finish(r, << ProviderCall("resend", 200),
                         Respond(200, [success |-> TRUE,
                                       message |-> <<"Contact form submitted successfully">>,
                                       submissionId |-> r, timestamp |-> now]) >>)
       ELSE IF outcome = "not_ok"
       THEN Finish(r, << ProviderCall("resend", 500),
                         Respond(500, ErrorBody("Email Service Error",
                                                "Failed to send email", now)) >>)
       ELSE Finish(r, << ProviderCall("resend", 500),
                         Respond(500, ErrorBody("Internal Server Error",
                                                "An unexpected error occurred", now)) >>)
  /\ UNCHANGED <<env, faults, rateLimitMap, req, auth, result, cache, actionLogs, now, ticks>>

PublicRequest(ep, method, body) == Request(ep, method, NoHeader, Undefined, Undefined, body)

PublicInputs ==
  { PublicRequest(ep, method, NoBody) :
      ep \in {"health", "docs", "status"}, method \in {"GET", "POST", "OPTIONS"} }
  \cup
  { PublicRequest("contact", method, ContactBody("ip1", "Ann", "Lee", "a@b.co", "hello")) :
      method \in {"GET", "POST", "OPTIONS"} }
  \cup
  { PublicRequest("contact", "POST", b) :
      b \in { ContactBody("ip2", "Ann", "Lee", "a@b.co", "hello"),
              ContactBody("ip1", "Ann", "Lee", "nope", "hello"),
              ContactBody("ip1", "", "Lee", "a@b.co", "hello") } }

InitPublic ==
  /\ env \in [API_SECRET_KEY : {"secret"}, NODE_ENV : {"production", Undefined},
               RESEND_API_KEY : {"re_key", Undefined}]
  /\ faults = NoFaults
  /\ InitState

NextPublic ==
  \/ \E r \in Req : ReceivePublic(r, PublicInputs)
  \/ \E r \in Req : ContactServe(r)
  \/ \E r \in Req : ContactProvider(r)
  \/ Tick

SpecPublic == InitPublic /\ [][NextPublic]_vars

\* C19 as stated: on every endpoint, a request with method OPTIONS is
\* answered with status 200 and an empty body, and during that request the
\* authenticator, the validator, the cache, the provider adapters, the rate
\* limiter and the logger are not invoked and no state changes.
C19_PreflightTouchesNothing ==
  [][\A r \in Req :
       (pc[r] = "idle" /\ pc'[r] # "idle" /\ req'[r].method = "OPTIONS")
       => /\ pc'[r] = "done"
          /\ events'[r] = <<RespondEnd(200)>>
          /\ UNCHANGED <<auth, result, cache, actionLogs, rateLimitMap>>]_vars

----------------------------------------------------------------------------
(* Two identical analysis requests; every continuation that is ready is     *)
(* eventually run by the event loop. The two are served within one clock    *)
(* instant: the entry's two hours of life play no part here                 *)

ConcurrentInputs ==
  { Request("analyze", "POST", Bearer("t_u1"), Undefined, Undefined,
            AnalyzeBody(TRUE, <<67>>, TRUE)) }

NextConcurrent ==
  \/ \E r \in Req : Receive(r, ConcurrentInputs)
  \/ \E r \in Req : Authenticate(r)
  \/ \E r \in Req : AnalyzeServe(r)
  \/ \E r \in Req : AnalyzeProvider(r)

SpecConcurrent ==
  /\ Init /\ [][NextConcurrent]_vars
  /\ \A r \in Req : /\ WF_vars(Authenticate(r))
                     /\ WF_vars(AnalyzeServe(r))
                     /\ WF_vars(AnalyzeProvider(r))

\* q and r, with the same payload, have both missed the cache and neither
\* has completed
InFlightTogether(q, r) ==
  /\ q # r
  /\ req[q].ep = "analyze" /\ req[r].ep = "analyze" /\ req[q].body = req[r].body
  /\ pc[q] = "provider" /\ pc[r] = "provider"

BothAnswered200(q, r) ==
  /\ Done(q) /\ Done(r)
  /\ Status(q) = 200 /\ Status(r) = 200
  /\ Len(Events(q, "respond")) = 1 /\ Len(Events(r, "respond")) = 1

\* r wrote the cache
Wrote(r) == Count(r, "cache", "set") = 1

\* a request other than q and r used the key of q
OthersUsedKey(q, r) ==
  \E p \in Req \ {q, r} :
    /\ pc[p] \in {"provider", "done"} /\ Cached(req[p]) /\ KeyOf(req[p]) = KeyOf(req[q])
    /\ Count(p, "cache", "get") = 1

\* C21 as stated: when two identical text-analysis requests are in flight at
\* the same time and both miss the cache, neither waits for the other: both
\* may invoke the provider, both eventually complete with a 200 response, and
\* in every interleaving the final cache holds exactly one entry under the
\* shared key.
C21_FinalCacheHoldsOneEntry ==
  \A q \in Req : \A r \in Req \ {q} :
    /\ InFlightTogether(q, r) ~> BothAnswered200(q, r)
    /\ [](InFlightTogether(q, r)
          => []((Done(q) /\ Done(r)) => KeyOf(req[q]) \in DOMAIN cache))

\* C21, amended: when two identical text-analysis requests are in flight at
\* the same time and both miss the cache, neither waits for the other: both
\* may invoke the provider and both eventually complete with a 200 response;
\* when both have completed and no other request used the key, the cache
\* holds one entry under the shared key, the result of one of the two, if at
\* least one of the provider calls returned content, and no entry under that
\* key if neither did (a failed call, empty content or a missing prompt
\* yields the fallback, which is not stored).
C21_FinalCacheHoldsOneEntryIfStored ==
  \A q \in Req : \A r \in Req \ {q} :
    /\ InFlightTogether(q, r) ~> BothAnswered200(q, r)
    /\ [](InFlightTogether(q, r)
          => []((Done(q) /\ Done(r) /\ ~OthersUsedKey(q, r))
                => IF Wrote(q) \/ Wrote(r)
                   THEN /\ KeyOf(req[q]) \in DOMAIN cache
                        /\ \E p \in {q, r} :
                             Wrote(p) /\ cache[KeyOf(req[q])].v = result[p]
                   ELSE KeyOf(req[q]) \notin DOMAIN cache))

\* two identical requests have both called the provider and both stored
\* their result: each looked the cache up before the other had stored
C21_Witness ==
  \E q, r \in Req :
    /\ q # r /\ Done(q) /\ Done(r) /\ req[q] = req[r] /\ req[q].ep = "analyze"
    /\ Count(q, "log", "cache_miss") = 1 /\ Count(r, "log", "cache_miss") = 1
    /\ Wrote(q) /\ Wrote(r)
    /\ HasProviderCall(events[q]) /\ HasProviderCall(events[r])
    /\ StoredAt(q) = StoredAt(r)
    /\ Status(q) = 200 /\ Status(r) = 200
    /\ KeyOf(req[q]) \in DOMAIN cache

----------------------------------------------------------------------------
(* Email sends are not cached and not de-duplicated *)

\* r is an authenticated email request that passes the schema and carries
\* every field its template requires
ValidEmail(r) ==
  /\ req[r].ep = "email" /\ req[r].method = "POST" /\ auth[r] # NoAuth
  /\ EmailIssues(req[r].body) = <<>>
  /\ missingFields(req[r].body.emailType, req[r].body.data) = {}

\* the calls of the email provider made for r
EmailCalls(r) == SelectSeq(events[r], LAMBDA e : e.op = "provider" /\ e.what = "resend")

\* C22: every authenticated, valid email-send request results in its own
\* call to the email provider: each of N identical requests calls the
\* provider once, whatever the others did, nothing is looked up or stored in
\* the cache, and the outcome of a request is that of its own call: 200 with
\* its own send when the call succeeded, 502 when it failed.
C22_EachEmailRequestCallsProvider ==
  /\ cache = <<>>
  /\ \A r \in Req :
       (Done(r) /\ ValidEmail(r))
       => /\ Len(EmailCalls(r)) = 1
          /\ Events(r, "cache") = <<>>
          /\ Len(Events(r, "respond")) = 1
          /\ IF EmailCalls(r)[1].status = 200
             THEN Status(r) = 200 /\ result[r].kind = "email" /\ result[r].by = r
             ELSE Status(r) = 502 /\ result[r] = NoValue

\* two identical valid requests are done: the first was sent, the second
\* called the provider again and failed
C22_Witness ==
  \E q \in Req : \E r \in Req \ {q} :
    /\ Done(q) /\ Done(r) /\ ValidEmail(q) /\ ValidEmail(r) /\ req[q] = req[r]
    /\ Status(q) = 200 /\ Status(r) = 502
    /\ Len(EmailCalls(q)) = 1 /\ Len(EmailCalls(r)) = 1

----------------------------------------------------------------------------
(* One attempt per request *)

ProviderCalls(r) == Events(r, "provider")

----------------------------------------------------------------------------
(* The conversation actions and their service methods *)

\* r is an authenticated conversation request whose action is one of the three
ConversationRequest(r) ==
  /\ req[r].ep = "conversation" /\ req[r].method = "POST" /\ auth[r] # NoAuth
  /\ req[r].body.action \in ConversationActions

\* what the action of r requires is missing or empty
LacksRequired(r) ==
  \/ req[r].body.action = "start_conversation" /\ req[r].body.agentId \in {Undefined, ""}
  \/ req[r].body.action = "send_message"
       /\ (req[r].body.conversationId \in {Undefined, ""} \/ req[r].body.message \in {Undefined, ""})
  \/ req[r].body.action = "end_conversation" /\ req[r].body.conversationId \in {Undefined, ""}

\* C26: on the conversation endpoint, start requires agentId, send requires
\* conversationId and message, end requires conversationId; a request whose
\* required field is missing or empty is answered 400 (ValidationError) and no
\* provider operation is invoked; otherwise exactly the provider operation
\* matching the action is invoked, once.
C26_ActionRequiresItsFields ==
  \A r \in Req :
    (Done(r) /\ ConversationRequest(r))
    => IF LacksRequired(r)
       THEN /\ Status(r) = 400
            /\ Events(r, "respond")[1].body.error = "Validation Error"
            /\ ProviderCalls(r) = <<>>
       ELSE /\ Len(ProviderCalls(r)) = 1
            /\ ProviderCalls(r)[1].what = "elevenlabs"
            /\ ProviderCalls(r)[1].body.operation =
                 (CASE req[r].body.action = "start_conversation" -> "startConversation"
                    [] req[r].body.action = "send_message" -> "sendMessage"
                    [] req[r].body.action = "end_conversation" -> "endConversation")

\* a send_message without its message was refused, and an end_conversation
\* with its conversationId called endConversation
C26_Witness ==
  \E q \in Req : \E r \in Req \ {q} :
    /\ Done(q) /\ Done(r) /\ ConversationRequest(q) /\ ConversationRequest(r)
    /\ req[q].body.action = "send_message" /\ req[q].body.message = ""
    /\ Status(q) = 400 /\ ProviderCalls(q) = <<>>
    /\ req[r].body.action = "end_conversation" /\ ~LacksRequired(r)
    /\ Len(ProviderCalls(r)) = 1 /\ ProviderCalls(r)[1].body.operation = "endConversation"

----------------------------------------------------------------------------
(* CacheService.generateOpenAIKey applied to whole arguments: messages with  *)
(* created_at, and a userProfile object whose properties come in an order   *)

\* JSON.stringify of a string of plain characters
JsonString(str) == <<34>> \o str \o <<34>>

\* the items of an array or the properties of an object, comma-separated
RECURSIVE JsonJoin(_)
JsonJoin(items) ==
  IF items = <<>> THEN <<>>
  ELSE IF Len(items) = 1 THEN items[1]
  ELSE items[1] \o <<44>> \o JsonJoin(Tail(items))

\* JSON.stringify of an object with string values: the properties in their
\* insertion order
JsonObject(props) ==
  <<123>>
  \o JsonJoin([i \in 1 .. Len(props) |->
                 JsonString(props[i].name) \o <<58>> \o JsonString(props[i].value)])
  \o <<125>>

\* the property names and the role, as code units
NameOf ==
  [role |-> <<114, 111, 108, 101>>, content |-> <<99, 111, 110, 116, 101, 110, 116>>, messages |-> <<109, 101, 115, 115, 97, 103, 101, 115>>, userProfile |-> <<117, 115, 101, 114, 80, 114, 111, 102, 105, 108, 101>>,
   level |-> <<108, 101, 118, 101, 108>>, first_name |-> <<102, 105, 114, 115, 116, 95, 110, 97, 109, 101>>, user |-> <<117, 115, 101, 114>>]

Property(name, value) == [name |-> name, value |-> value]

\* messages.map(m => ({ role: m.role, content: m.content }))
RoleAndContent(messages) ==
  [i \in 1 .. Len(messages) |->
     << Property(NameOf.role, messages[i].role),
        Property(NameOf.content, messages[i].content) >>]

\* generateOpenAIKey(messages, userProfile): studyTopic and vocabularyContext
\* are undefined and JSON.stringify drops them
generateOpenAIKeyOf(messages, userProfile) ==
  LET mapped == RoleAndContent(messages)
      content ==
        <<123>> \o JsonString(NameOf.messages) \o <<58>>
        \o <<91>> \o JsonJoin([i \in 1 .. Len(mapped) |-> JsonObject(mapped[i])]) \o <<93>>
        \o <<44>> \o JsonString(NameOf.userProfile) \o <<58>> \o JsonObject(userProfile)
        \o <<125>>
  IN  [ns |-> "openai", digest |-> hashString(content)]

Message(content, created_at) ==
  [role |-> NameOf.user, content |-> content, created_at |-> created_at]

\* userProfile objects: two fields in either property order, and one field
UserProfiles ==
  { << Property(NameOf.level, <<66, 49>>), Property(NameOf.first_name, <<65, 108>>) >>,
    << Property(NameOf.first_name, <<65, 108>>), Property(NameOf.level, <<66, 49>>) >>,
    << Property(NameOf.level, <<66, 49>>) >>,
    << >> }

KeyArguments ==
  { [messages |-> <<Message(c, t)>>, userProfile |-> p] :
      c \in Contents, t \in {Undefined, "2024-01-01", "2024-01-02"}, p \in UserProfiles }

\* a caller derives the key of its arguments
GenerateOpenAIKey(r) ==
  /\ pc[r] = "idle"
  /\ \E args \in KeyArguments :
       /\ req' = [req EXCEPT ![r] =
                    Request("analyze", "POST", NoHeader, Undefined, Undefined, args)]
       /\ result' = [result EXCEPT ![r] =
                       [kind |-> "key",
                        content |-> generateOpenAIKeyOf(args.messages, args.userProfile).digest,
                        by |-> r]]
       /\ pc' = [pc EXCEPT ![r] = "done"]
  /\ UNCHANGED <<env, faults, rateLimitMap, auth, events, cache, actionLogs, now, ticks>>

NextKeys == \E r \in Req : GenerateOpenAIKey(r)

SpecKeys == Init /\ [][NextKeys]_vars

\* the fields and values of an object, whatever their order
Fields(props) == { props[i] : i \in 1 .. Len(props) }

\* two argument lists that differ at most in the property order of
\* userProfile and in the created_at of their messages
SameUpToOrderAndVolatile(a, b) ==
  /\ RoleAndContent(a.messages) = RoleAndContent(b.messages)
  /\ Len(a.userProfile) = Len(b.userProfile)
  /\ Fields(a.userProfile) = Fields(b.userProfile)

KeyDerived(r) == pc[r] = "done" /\ result[r].kind = "key"

C24_CreatedAtIsStripped ==
  \A q \in Req : \A r \in Req :
    (/\ KeyDerived(q) /\ KeyDerived(r)
     /\ RoleAndContent(req[q].body.messages) = RoleAndContent(req[r].body.messages)
     /\ req[q].body.userProfile = req[r].body.userProfile)
    => result[q].content = result[r].content

\* the general derivation agrees with generateOpenAIKey on an empty userProfile
C24_EmptyProfileAgrees ==
  \A r \in Req :
    (KeyDerived(r) /\ req[r].body.userProfile = <<>>)
    => result[r].content = generateOpenAIKey(req[r].body.messages[1].content).digest

----------------------------------------------------------------------------
(* CacheService.set and CacheService.get called directly, with the clock    *)
(* moving to the second before, the second of, and the second after expiry  *)

\* a key of each kind with the service its entries are set for; a set without
\* a service uses the default TTL
CacheCalls ==
  { <<"openai", "openai">>, <<"elevenlabs:voice", "elevenlabs">>,
    <<"user_profile", "user_profiles">>, <<"email_template", "email_templates">>,
    <<"other", Undefined>> }

CacheKey(ns) == [ns |-> ns, digest |-> <<>>]

\* cacheService.set(key, data, service) by the caller r
CacheServiceSet(r) ==
  /\ pc[r] = "idle"
  /\ \E c \in CacheCalls :
       LET data == [kind |-> "stored", content |-> <<>>, by |-> r]
       IN  /\ cache' = CacheSet(cache, CacheKey(c[1]), data, c[2], now)
           /\ events' = [events EXCEPT ![r] =
                           @ \o << Ev("cache", "set", 0,
                                      [key |-> CacheKey(c[1]), service |-> c[2],
                                       at |-> now, value |-> data]) >>]
           /\ pc' = [pc EXCEPT ![r] = "serve"]
  /\ UNCHANGED <<env, faults, rateLimitMap, req, auth, result, actionLogs, now, ticks>>

\* cacheService.get(key) by the caller r: of the key it has set, or of any
\* key when it has set none
CacheServiceGet(r) ==
  /\ pc[r] \in {"idle", "serve"}
  /\ \E c \in CacheCalls :
       LET value == CacheGet(cache, CacheKey(c[1]), now)
       IN  /\ pc[r] = "serve" => events[r][1].body.key = CacheKey(c[1])
           /\ result' = [result EXCEPT ![r] = value]
           /\ cache' = CacheAfterGet(cache, CacheKey(c[1]), now)
           /\ Finish(r, << Ev("cache", "get", 0,
                              [key |-> CacheKey(c[1]), service |-> c[2],
                               at |-> now, value |-> value]) >>)
  /\ UNCHANGED <<env, faults, rateLimitMap, req, auth, actionLogs, now, ticks>>

\* time passes: one second, or one second less than a TTL
ElapseSteps == {1} \cup { serviceTTLs[service] - 1 : service \in DOMAIN serviceTTLs }

Elapse ==
  /\ ticks < MaxTicks
  /\ \E d \in ElapseSteps : now' = now + d
  /\ ticks' = ticks + 1
  /\ UNCHANGED <<env, faults, rateLimitMap, req, pc, auth, events, result, cache, actionLogs>>

NextCache ==
  \/ \E r \in Req : CacheServiceSet(r)
  \/ \E r \in Req : CacheServiceGet(r)
  \/ Elapse

SpecCache == Init /\ [][NextCache]_vars

\* the sets of a key so far, by any caller
SetsOf(key) ==
  { e \in UNION { { events[q][i] : i \in 1 .. Len(events[q]) } : q \in Req } :
      e.op = "cache" /\ e.what = "set" /\ e.body.key = key }

\* the latest of them
LatestSetsOf(key) ==
  { e \in SetsOf(key) : \A f \in SetsOf(key) : f.body.at <= e.body.at }

\* the get that r makes in this step
GetOf(r) == events'[r][Len(events'[r])].body

Gets(r) == pc[r] # "done" /\ pc'[r] = "done"

\* the TTLs as the documentation gives them, in seconds
DocumentedTTL(service) ==
  CASE service = "openai" -> 7200
    [] service = "elevenlabs" -> 3600
    [] service = "user_profiles" -> 1800
    [] service = "email_templates" -> 86400
    [] OTHER -> 3600

\* C25 as stated: after set(key, value, namespace) at time t with no later
\* set, delete or flush of that key, get(key) returns value at every time
\* before t + ttl(namespace) and absent at every time from t + ttl(namespace)
\* on, where ttl is 7200 s for openai, 3600 s for elevenlabs, 1800 s for
\* user_profiles, 86400 s for email_templates and 3600 s when no namespace is
\* given; get never throws.
C25_AbsentFromExpiryInstantOn ==
  [][\A r \in Req :
       Gets(r)
       => \/ /\ SetsOf(GetOf(r).key) = {}
             /\ result'[r] = NoValue
          \/ \E e \in LatestSetsOf(GetOf(r).key) :
               IF now < e.body.at + DocumentedTTL(e.body.service)
               THEN result'[r] = e.body.value
               ELSE result'[r] = NoValue]_vars

\* C25, amended: after set(key, value, namespace) at time t with no later
\* set, delete or flush of that key, get(key) returns value at every time up
\* to and including t + ttl(namespace) and absent at every time after
\* t + ttl(namespace), with the same TTLs; get never throws.
C25_AbsentAfterExpiryInstant ==
  [][\A r \in Req :
       Gets(r)
       => \/ /\ SetsOf(GetOf(r).key) = {}
             /\ result'[r] = NoValue
          \/ \E e \in LatestSetsOf(GetOf(r).key) :
               IF now <= e.body.at + DocumentedTTL(e.body.service)
               THEN result'[r] = e.body.value
               ELSE result'[r] = NoValue]_vars

\* a value set for user_profiles was read at the instant of its expiry by one
\* caller, and one second later the other caller found it absent
C25_Witness ==
  \E q \in Req : \E r \in Req \ {q} :
    /\ Done(q) /\ Done(r)
    /\ Count(q, "cache", "set") = 1
    /\ events[q][1].body.service = "user_profiles"
    /\ events[q][2].body.key = events[q][1].body.key
    /\ events[q][2].body.at = events[q][1].body.at + serviceTTLs.user_profiles
    /\ result[q] = events[q][1].body.value
    /\ Len(events[r]) = 1 /\ events[r][1].body.key = events[q][1].body.key
    /\ events[r][1].body.at = events[q][2].body.at + 1
    /\ result[r] = NoValue

----------------------------------------------------------------------------
(* Responses written per request *)

\* C27 as stated: every request receives exactly one HTTP response: after an
\* endpoint has written a status and body to the response, no later step of
\* the same request writes a second status or body (in particular on the
\* authentication-failure path through authMiddleware and asyncHandler).
C27_ExactlyOneResponse ==
  \A r \in Req :
    /\ Len(Events(r, "respond")) <= 1
    /\ Done(r) => Len(Events(r, "respond")) = 1

\* the same for the requests that authMiddleware did not refuse
C27_ExactlyOneResponseUnlessRefused ==
  \A r \in Req :
    (Done(r) /\ ~(PastAuth(r) /\ auth[r] = NoAuth))
    => Len(Events(r, "respond")) = 1

----------------------------------------------------------------------------
(* What the cache holds under an analysis key *)

\* C28 as stated: the fallback analysis is never stored in the cache: in every
\* reachable state each cache entry under an analysis key holds an analysis
\* obtained from a successfully parsed provider response, so after a request
\* that returned the fallback, the next identical request invokes the
\* provider again.
C28_FallbackNeverCached ==
  /\ \A key \in DOMAIN cache :
       key.ns = "openai" => cache[key].v.kind \in {"analysis", "analysis_summary_not_string"}
  /\ \A r \in Req :
       (/\ Done(r) /\ req[r].ep = "analyze" /\ Count(r, "cache", "get") = 1
        /\ result[r] = getFallbackAnalysis)
       => HasProviderCall(events[r]) \/ Count(r, "db", "analysis_prompts") = 1

----------------------------------------------------------------------------
(* The contact form, with clients that submit again and a clock that moves  *)
(* by one second and by one second less than the window                     *)

MaxSubmissions == 2   \* requests a connection sends, one after the other

ContactInputs ==
  { PublicRequest("contact", "POST", b) :
      b \in { ContactBody("ip1", "Ann", "Lee", "a@b.co", "hello"),
              ContactBody("ip2", "Ann", "Lee", "a@b.co", "hello"),
              ContactBody("ip1", "Ann", "Lee", "nope", "hello") } }

\* the calls of checkRateLimit made on the connection r
RateLimitChecks(evs) == SelectSeq(evs, LAMBDA e : e.op = "ratelimit")

\* the client of a completed request sends another on the same connection;
\* of the record of the earlier one the calls of the rate limiter are kept
NextSubmission(r) ==
  /\ pc[r] = "done"
  /\ Len(RateLimitChecks(events[r])) < MaxSubmissions
  /\ pc' = [pc EXCEPT ![r] = "idle"]
  /\ events' = [events EXCEPT ![r] = RateLimitChecks(@)]
  /\ UNCHANGED <<env, faults, rateLimitMap, req, auth, result, cache, actionLogs,
                 now, ticks>>

WindowSteps == {1, windowSeconds - 1}

ElapseWindow ==
  /\ ticks < MaxTicks
  /\ \E d \in WindowSteps : now' = now + d
  /\ ticks' = ticks + 1
  /\ UNCHANGED <<env, faults, rateLimitMap, req, pc, auth, events, result, cache, actionLogs>>

NextContact ==
  \/ \E r \in Req : ReceivePublic(r, ContactInputs)
  \/ \E r \in Req : ContactServe(r)
  \/ \E r \in Req : ContactProvider(r)
  \/ \E r \in Req : NextSubmission(r)
  \/ ElapseWindow

SpecContact == Init /\ [][NextContact]_vars

\* the instants at which a request from ip was let through so far
AcceptedAt(ip) ==
  { e.body.at : e \in { c \in UNION { { events[q][i] : i \in 1 .. Len(events[q]) } : q \in Req } :
                          c.op = "ratelimit" /\ c.what = "ok" /\ c.body.ip = ip } }

\* what the step of r through the rate limiter adds to its record
AddedBy(r) == SubSeq(events'[r], Len(events[r]) + 1, Len(events'[r]))

\* C29: the contact-form rate limiter accepts at most one request per client
\* IP in any 60-second window: after a request from an IP is accepted at time
\* t, every request from that IP at a time t' with t' - t < 60 s is rejected
\* with 429 and sends no email; rejected requests are not recorded, so the
\* first request at t' >= t + 60 s is accepted; requests from other IPs are
\* unaffected.
C29_OneRequestPerWindow ==
  [][\A r \in Req :
       (pc[r] = "serve" /\ pc'[r] # "serve" /\ req[r].ep = "contact")
       => IF \E t \in AcceptedAt(req[r].body.ip) : now - t < 60
          THEN /\ pc'[r] = "done"
               /\ Len(AddedBy(r)) = 2
               /\ AddedBy(r)[1].what = "exceeded"
               /\ AddedBy(r)[2].op = "respond" /\ AddedBy(r)[2].status = 429
          ELSE /\ AddedBy(r)[1].what = "ok"
               /\ \A i \in 1 .. Len(AddedBy(r)) : AddedBy(r)[i].status # 429]_vars

\* a connection from ip1 was let through at t, refused at t + 59 s, and the
\* other connection from ip1 was let through at t + 60 s
C29_Witness ==
  \E q \in Req : \E r \in Req \ {q} :
    /\ Len(RateLimitChecks(events[q])) = 2 /\ Len(RateLimitChecks(events[r])) = 1
    /\ RateLimitChecks(events[q])[1].what = "ok"
    /\ RateLimitChecks(events[q])[1].body.ip = "ip1"
    /\ RateLimitChecks(events[q])[2].what = "exceeded"
    /\ RateLimitChecks(events[q])[2].body.ip = "ip1"
    /\ RateLimitChecks(events[q])[2].body.at = RateLimitChecks(events[q])[1].body.at + 59
    /\ RateLimitChecks(events[r])[1].what = "ok"
    /\ RateLimitChecks(events[r])[1].body.ip = "ip1"
    /\ RateLimitChecks(events[r])[1].body.at = RateLimitChecks(events[q])[1].body.at + 60

----------------------------------------------------------------------------
(* What logApiCall is given: the activity log endpoint and the conversation *)
(* endpoint, with the clock moving while a call is handled                  *)

DurationInputs ==
  { Request("activity", method, Bearer("t_u1"), Undefined, "u1", ActivityBody("login")) :
      method \in {"GET", "POST"} }
  \cup
  { Request("conversation", "POST", Bearer("t_u1"), Undefined, Undefined,
            ConversationBody("start_conversation", "agent", Undefined, Undefined)) }

NextDurations ==
  \/ \E r \in Req : Receive(r, DurationInputs)
  \/ \E r \in Req : Authenticate(r)
  \/ \E r \in Req : ActivityServe(r)
  \/ \E r \in Req : ActivityDb(r)
  \/ \E r \in Req : ConversationServe(r)
  \/ \E r \in Req : ConversationProvider(r)
  \/ Tick

SpecDurations == Init /\ [][NextDurations]_vars

\* the call that r is handling completes in this step
Completes(r) == pc[r] \in {"db", "provider"} /\ pc'[r] = "done"

\* the records logApiCall is given in this step
ApiCallLogs(r) ==
  SelectSeq(SubSeq(events'[r], Len(events[r]) + 1, Len(events'[r])),
            LAMBDA e : e.op = "log" /\ e.what = "api_call")

\* C30 as stated: every log record written through logApiCall for a completed
\* call carries method, endpoint, status and a duration equal to the elapsed
\* time between the start of that call's handling and its completion
\* (non-negative, and growing with the time the call took), on every endpoint
\* including the per-user activity log.
C30_DurationIsElapsedTime ==
  [][\A r \in Req :
       Completes(r)
       => \A i \in 1 .. Len(ApiCallLogs(r)) :
            /\ ApiCallLogs(r)[i].body.method = req[r].method
            /\ ApiCallLogs(r)[i].body.endpoint # Undefined
            /\ ApiCallLogs(r)[i].status \in {200, 201, 500}
            /\ ApiCallLogs(r)[i].body.duration = now - startTime(r)]_vars

\* the same for the conversation endpoint alone
C30_ConversationDurationIsElapsedTime ==
  [][\A r \in Req :
       (Completes(r) /\ req[r].ep = "conversation")
       => /\ Len(ApiCallLogs(r)) = 1
          /\ ApiCallLogs(r)[1].body.duration = now - startTime(r)]_vars

====
